---- MODULE Spec2Model ----
(***************************************************************************)
(* Verification model of the transaction codec (src/tx/builder/index.ts)   *)
(* and of the transaction validator pipeline (src/tx/validator.ts) of the  *)
(* aepp-sdk-js repository.                                                  *)
(*                                                                         *)
(* JavaScript values are modelled as records with a kind field "k":        *)
(*   undef        null / undefined                                         *)
(*   bool         a boolean                                                *)
(*   num          a number                                                 *)
(*   dec          a string holding the decimal digits of a number          *)
(*   str          a plain string, held as its UTF-8 bytes                  *)
(*   enc          a prefixed, checksummed string  <prefix>_<data>          *)
(*   ctv          an object { vmVersion, abiVersion }                      *)
(*   list         an array of values                                       *)
(*   buf          a Buffer                                                 *)
(*   unpacked     the object { tx, rlpEncoded } returned by unpackTx       *)
(*   err          a thrown error (e names its class)                       *)
(* Objects (transaction parameter sets) are functions from keys to values; *)
(* a key that is not in the domain reads as undefined.                     *)
(***************************************************************************)
EXTENDS Integers, Sequences, FiniteSets, TLC

(***************************************************************************)
(* Bounds of the model.                                                    *)
(***************************************************************************)
\* the greatest number of top-level elements of a byte sequence given to unpackTx
MaxElems == 4
\* the greatest version a caller asks buildTx for
MaxVsn == 2

(***************************************************************************)
(* JavaScript values.                                                      *)
(***************************************************************************)
Undef == [k |-> "undef"]
JBool(b) == [k |-> "bool", b |-> b]
JNum(n) == [k |-> "num", n |-> n]
JDec(n) == [k |-> "dec", n |-> n]
JStr(s) == [k |-> "str", s |-> s]
JEnc(p, d) == [k |-> "enc", p |-> p, d |-> d]
JCtv(vm, abi) == [k |-> "ctv", vmVersion |-> vm, abiVersion |-> abi]
JList(v) == [k |-> "list", v |-> v]
JBuf(d) == [k |-> "buf", d |-> d]
JUnpacked(tx, rlpEncoded) == [k |-> "unpacked", tx |-> tx, rlpEncoded |-> rlpEncoded]
JErr(e) == [k |-> "err", e |-> e]

IsNullish(v) == v.k = "undef"
\* an object (a function from keys to values) has no kind
IsErr(v) == "k" \in DOMAIN v /\ v.k = "err"

\* obj[key] of JavaScript: undefined when the key is missing
Get(obj, key) == IF key \in DOMAIN obj THEN obj[key] ELSE Undef

\* obj[key] = value of JavaScript
Put(obj, key, value) ==
    [x \in (DOMAIN obj) \cup {key} |-> IF x = key THEN value ELSE obj[x]]

\* the numeric value +v of a number or of a decimal string
NumOf(v) == v.n

(***************************************************************************)
(* Bytes: a byte string is a sequence of 0..255.                           *)
(***************************************************************************)
RECURSIVE BigEndian(_)
BigEndian(n) == IF n < 256 THEN <<n>> ELSE BigEndian(n \div 256) \o <<n % 256>>

RECURSIVE FromBigEndian(_)
FromBigEndian(bs) ==
    IF bs = <<>> THEN 0
    ELSE FromBigEndian(SubSeq(bs, 1, Len(bs) - 1)) * 256 + bs[Len(bs)]

\* the value JavaScript calls NaN
NaN == 0 - 1

\* toBytes(val, big) of utils/bytes: null -> empty, an integer -> big endian
\* bytes of an even number of hex digits, a string -> its UTF-8 bytes (the
\* characters of a prefixed string are not its data: they are modelled as
\* the data between two underscore bytes)
toBytes(val) ==
    CASE val.k = "undef" -> <<>>
      [] val.k \in {"num", "dec"} -> BigEndian(val.n)
      [] val.k = "str" -> val.s
      [] val.k = "enc" -> <<95>> \o val.d \o <<95>>
      [] OTHER -> <<>>

\* readInt(buf) of tx/builder/helpers: the number the bytes spell in hex;
\* no bytes spell NaN
readInt(bs) == IF bs = <<>> THEN NaN ELSE FromBigEndian(bs)

(***************************************************************************)
(* RLP (package rlp).  An item is a byte string [k |-> "b", d |-> bytes]   *)
(* or a list of items [k |-> "l", v |-> items].                            *)
(***************************************************************************)
RlpB(d) == [k |-> "b", d |-> d]
RlpL(v) == [k |-> "l", v |-> v]

RlpHeader(short, len) ==
    IF len <= 55 THEN <<short + len>>
    ELSE LET lb == BigEndian(len) IN <<short + 55 + Len(lb)>> \o lb

RECURSIVE rlpEncode(_)
RECURSIVE rlpEncodeAll(_)
rlpEncode(item) ==
    IF item.k = "b"
    THEN IF Len(item.d) = 1 /\ item.d[1] < 128 THEN item.d
         ELSE RlpHeader(128, Len(item.d)) \o item.d
    ELSE LET payload == rlpEncodeAll(item.v)
         IN  RlpHeader(192, Len(payload)) \o payload
rlpEncodeAll(items) ==
    IF items = <<>> THEN <<>>
    ELSE rlpEncode(Head(items)) \o rlpEncodeAll(Tail(items))

\* the first item of a byte sequence and the number of bytes it takes
RECURSIVE rlpDecodeAll(_)
RlpFirst(bs) ==
    LET f == bs[1] IN
    IF f < 128 THEN [item |-> RlpB(<<f>>), used |-> 1]
    ELSE IF f <= 183
    THEN [item |-> RlpB(SubSeq(bs, 2, 1 + (f - 128))), used |-> 1 + (f - 128)]
    ELSE IF f <= 191
    THEN LET ll == f - 183
             len == FromBigEndian(SubSeq(bs, 2, 1 + ll))
         IN  [item |-> RlpB(SubSeq(bs, 2 + ll, 1 + ll + len)), used |-> 1 + ll + len]
    ELSE IF f <= 247
    THEN [item |-> RlpL(rlpDecodeAll(SubSeq(bs, 2, 1 + (f - 192)))),
          used |-> 1 + (f - 192)]
    ELSE LET ll == f - 247
             len == FromBigEndian(SubSeq(bs, 2, 1 + ll))
         IN  [item |-> RlpL(rlpDecodeAll(SubSeq(bs, 2 + ll, 1 + ll + len))),
              used |-> 1 + ll + len]
rlpDecodeAll(bs) ==
    IF bs = <<>> THEN <<>>
    ELSE LET r == RlpFirst(bs)
         IN  <<r.item>> \o rlpDecodeAll(SubSeq(bs, r.used + 1, Len(bs)))

rlpDecode(bs) == RlpFirst(bs).item

(***************************************************************************)
(* String encoding (utils/encoder): encode(data, prefix) gives the string  *)
(* <prefix>_<checksummed data>, decode(string) gives the data back.        *)
(***************************************************************************)
encode(d, prefix) == JEnc(prefix, d)
decode(v) == v.d

(***************************************************************************)
(* Schema registry (tx/builder/schema.ts, tx/builder/constants.ts): the    *)
(* tags, and for each tag the field list of each registered version.  A    *)
(* field is (key, type, prefix).  The types bool, binary, string, payload, *)
(* rlpBinary, ctVersion and signatures are members of FIELD_TYPES, the     *)
(* types uInt, shortUInt, coinAmount and gasPrice are Field objects.       *)
(***************************************************************************)
Tag == [Account |-> 10, SignedTx |-> 11, SpendTx |-> 12, NameClaimTx |-> 32,
        Contract |-> 40, ContractCreateTx |-> 42, ContractCallTx |-> 43,
        GaMetaTx |-> 81, PayingForTx |-> 82]

Fld(key, type, prefix) == [key |-> key, type |-> type, prefix |-> prefix]

BaseFields == <<Fld("tag", "shortUInt", ""), Fld("VSN", "shortUInt", "")>>

TX_SCHEMA ==
    (Tag.Account :>
        (1 :> BaseFields \o <<Fld("nonce", "uInt", ""), Fld("balance", "uInt", "")>>
         @@
         2 :> BaseFields \o <<Fld("flags", "uInt", ""), Fld("nonce", "uInt", ""),
                              Fld("balance", "uInt", "")>>))
    @@
    (Tag.SignedTx :>
        (1 :> BaseFields \o <<Fld("signatures", "signatures", ""),
                              Fld("encodedTx", "rlpBinary", "")>>))
    @@
    (Tag.SpendTx :>
        (1 :> BaseFields \o <<Fld("senderId", "binary", "ak"),
                              Fld("recipientId", "binary", "ak"),
                              Fld("amount", "coinAmount", ""),
                              Fld("fee", "coinAmount", ""),
                              Fld("ttl", "uInt", ""),
                              Fld("nonce", "uInt", ""),
                              Fld("payload", "payload", "")>>))
    @@
    (Tag.NameClaimTx :>
        (2 :> BaseFields \o <<Fld("accountId", "binary", "ak"),
                              Fld("nonce", "uInt", ""),
                              Fld("name", "string", ""),
                              Fld("nameSalt", "uInt", ""),
                              Fld("nameFee", "coinAmount", ""),
                              Fld("fee", "coinAmount", ""),
                              Fld("ttl", "uInt", "")>>))
    @@
    (Tag.Contract :>
        (1 :> BaseFields \o <<Fld("owner", "binary", "ak"),
                              Fld("ctVersion", "ctVersion", ""),
                              Fld("active", "bool", ""),
                              Fld("deposit", "coinAmount", "")>>))
    @@
    (Tag.ContractCreateTx :>
        (1 :> BaseFields \o <<Fld("ownerId", "binary", "ak"),
                              Fld("nonce", "uInt", ""),
                              Fld("ctVersion", "ctVersion", ""),
                              Fld("fee", "coinAmount", ""),
                              Fld("ttl", "uInt", ""),
                              Fld("deposit", "coinAmount", ""),
                              Fld("amount", "coinAmount", "")>>))
    @@
    (Tag.ContractCallTx :>
        (1 :> BaseFields \o <<Fld("callerId", "binary", "ak"),
                              Fld("nonce", "uInt", ""),
                              Fld("contractId", "binary", "ct"),
                              Fld("abiVersion", "uInt", ""),
                              Fld("fee", "coinAmount", ""),
                              Fld("ttl", "uInt", ""),
                              Fld("amount", "coinAmount", ""),
                              Fld("gasLimit", "coinAmount", ""),
                              Fld("gasPrice", "gasPrice", "")>>))
    @@
    (Tag.GaMetaTx :>
        (2 :> BaseFields \o <<Fld("gaId", "binary", "ak"),
                              Fld("abiVersion", "uInt", ""),
                              Fld("fee", "coinAmount", ""),
                              Fld("tx", "rlpBinary", "")>>))
    @@
    (Tag.PayingForTx :>
        (1 :> BaseFields \o <<Fld("payerId", "binary", "ak"),
                              Fld("nonce", "uInt", ""),
                              Fld("fee", "coinAmount", ""),
                              Fld("tx", "rlpBinary", "")>>))

\* isKeyOfObject(key, object) of utils/other: key in object
isKeyOfObject(key, object) == key \in DOMAIN object

SeqMax(S) == CHOOSE x \in S : \A y \in S : y <= x

\* the keys of a schema, and the schema without the excluded keys
SchemaKeys(schema) == {schema[i].key : i \in 1..Len(schema)}
FilterSchema(schema, excludeKeys) ==
    SelectSeq(schema, LAMBDA f : f.key \notin excludeKeys)

(***************************************************************************)
(* Field objects of tx/builder/field-types.                                *)
(***************************************************************************)
MIN_GAS_PRICE == 1000000000

\* uInt.serialize: the big endian bytes of a non-negative integer
uIntSerialize(value) == RlpB(toBytes(value))

\* coinAmount.serialize: an absent amount counts as 0
coinAmountSerialize(value) ==
    IF IsNullish(value) THEN RlpB(BigEndian(0)) ELSE uIntSerialize(value)

\* gasPrice.serializeAettos: the minimal gas price when absent, and an error
\* for a gas price below the minimal one
gasPriceSerialize(value) ==
    IF IsNullish(value) THEN RlpB(BigEndian(MIN_GAS_PRICE))
    ELSE IF NumOf(value) < MIN_GAS_PRICE THEN JErr("IllegalArgumentError")
    ELSE uIntSerialize(value)

(***************************************************************************)
(* serializeField, deserializeField, validateField, validateParams.        *)
(***************************************************************************)
RlpUndefined == [k |-> "undef"]

\* a payload serialized as text whatever its prefix
serializePayloadAsText(value) == RlpB(toBytes(value))

\* lines 105-108: a ba_ string is decoded, anything else is taken as text
serializePayload(value) ==
    IF value.k = "enc" /\ value.p = "ba"
    THEN RlpB(decode(value)) ELSE RlpB(toBytes(value))

serializeField(value, type, params) ==
    CASE type = "bool" ->
            RlpB(<<IF value = JBool(TRUE) THEN 1 ELSE 0>>)
      [] type = "binary" -> RlpB(decode(value))
      [] type = "signatures" ->
            RlpL([i \in 1..Len(value.v) |-> RlpB(value.v[i].d)])
      [] type = "payload" -> serializePayload(value)
      [] type = "string" -> RlpB(toBytes(value))
      [] type = "rlpBinary" ->
            IF value.k = "unpacked" THEN RlpB(value.rlpEncoded) ELSE RlpB(value.d)
      [] type = "ctVersion" ->
            RlpB(toBytes(value.vmVersion) \o <<0>> \o toBytes(value.abiVersion))
      [] type \in {"uInt", "shortUInt"} -> uIntSerialize(value)
      [] type = "coinAmount" -> coinAmountSerialize(value)
      [] type = "gasPrice" -> gasPriceSerialize(value)
      [] OTHER -> IF IsNullish(value) THEN RlpUndefined ELSE RlpB(value.d)

validateField(value, type) ==
    IF IsNullish(value) THEN "Field is required"
    ELSE IF type = "ctVersion"
    THEN IF ~ (  ~ IsNullish(value.abiVersion) /\ NumOf(value.abiVersion) # 0
              /\ ~ IsNullish(value.vmVersion) /\ NumOf(value.vmVersion) # 0)
         THEN "Value must be an object with vmVersion and abiVersion fields"
         ELSE ""
    ELSE ""

\* the allow-list without the gas price
optionalFieldsSix == {"payload", "nameFee", "deposit", "fee", "gasLimit", "amount"}

optionalFields ==
    {"payload", "nameFee", "deposit", "gasPrice", "fee", "gasLimit", "amount"}

\* a validation that stops at the first failing field
validateParamsFirstOnly(params, schema, excludeKeys) ==
    LET failing == {i \in 1..Len(schema) :
                        /\ schema[i].key \notin excludeKeys
                        /\ schema[i].key \notin optionalFields
                        /\ validateField(Get(params, schema[i].key), schema[i].type) # ""}
        first == {i \in failing : \A j \in failing : i <= j}
    IN  [key \in {schema[i].key : i \in first} |->
            LET i == CHOOSE j \in first : schema[j].key = key
            IN  validateField(Get(params, key), schema[i].type)]

\* the object of the validation messages, by field key
validateParams(params, schema, excludeKeys) ==
    LET checked == {i \in 1..Len(schema) :
                        /\ schema[i].key \notin excludeKeys
                        /\ schema[i].key \notin optionalFields}
        failing == {i \in checked :
                        validateField(Get(params, schema[i].key), schema[i].type) # ""}
    IN  [key \in {schema[i].key : i \in failing} |->
            LET i == CHOOSE j \in failing : schema[j].key = key
            IN  validateField(Get(params, key), schema[i].type)]

RECURSIVE unpackTx(_, _)
RECURSIVE unpackRawTx(_, _)
RECURSIVE DeserializeAll(_, _)
RECURSIVE deserializeField(_, _, _)

\* value is the element of the decoded list, or RlpUndefined when the list
\* has no element at the field's index
deserializeField(value, type, prefix) ==
    IF value.k = "undef" THEN JStr(<<>>)
    ELSE CASE type = "ctVersion" ->
            LET vm == IF Len(value.d) >= 1 THEN value.d[1] ELSE 0
                abi == IF Len(value.d) >= 3 THEN value.d[3] ELSE 0
            IN  JCtv(JDec(readInt(<<vm>>)), JDec(readInt(<<abi>>)))
      [] type = "bool" -> JBool(Len(value.d) >= 1 /\ value.d[1] = 1)
      [] type = "binary" -> encode(value.d, prefix)
      [] type = "string" -> JStr(value.d)
      [] type = "payload" -> encode(value.d, "ba")
      [] type = "rlpBinary" -> unpackTx(encode(value.d, "tx"), Undef)
      [] type = "uInt" -> JDec(readInt(value.d))
      [] type \in {"coinAmount", "gasPrice"} -> JDec(readInt(value.d))
      [] type = "shortUInt" -> JNum(readInt(value.d))
      [] type = "signatures" ->
            JList([i \in 1..Len(value.v) |-> JBuf(value.v[i].d)])
      [] OTHER -> JBuf(value.d)

\* binary[index] of JavaScript: undefined past the end
ElemAt(binary, i) == IF i <= Len(binary) THEN binary[i] ELSE RlpUndefined

\* lines 178-185: the object of the deserialized fields by key, or the error
\* of the first field whose deserialization throws
FieldsObject(fields, schema) ==
    IF \E i \in 1..Len(schema) : IsErr(fields[i])
    THEN fields[CHOOSE i \in 1..Len(schema) :
                    /\ IsErr(fields[i])
                    /\ \A j \in 1..(i - 1) : ~ IsErr(fields[j])]
    ELSE [key \in SchemaKeys(schema) |->
            fields[CHOOSE i \in 1..Len(schema) : schema[i].key = key]]

\* lines 177-185: every field of the schema read from the element at its index
DeserializeAll(binary, schema) ==
    FieldsObject([i \in 1..Len(schema) |->
                    deserializeField(ElemAt(binary, i), schema[i].type,
                                     schema[i].prefix)], schema)

\* an unpacking that does not compare the lengths
unpackRawTxUnchecked(binary, schema) == DeserializeAll(binary, schema)

\* binary is the sequence of the decoded top-level elements
unpackRawTx(binary, schema) ==
    IF Len(binary) # Len(schema) THEN JErr("ArgumentError")
    ELSE DeserializeAll(binary, schema)

\* the integer a top-level element spells: NaN for a missing element
ElemInt(binary, i) ==
    IF i <= Len(binary) /\ binary[i].k = "b" THEN readInt(binary[i].d) ELSE NaN

\* a header check that reports every failed lookup as SchemaNotFoundError
HeaderErrorSchemaOnly(objId, vsn, txType) ==
    IF ~ isKeyOfObject(objId, TX_SCHEMA) THEN "SchemaNotFoundError"
    ELSE IF ~ IsNullish(txType) /\ NumOf(txType) # objId THEN "DecodeError"
    ELSE IF ~ isKeyOfObject(vsn, TX_SCHEMA[objId]) THEN "SchemaNotFoundError"
    ELSE ""

\* lines 304-307: the error the header (tag, version) makes unpackTx throw,
\* "" when it throws none
HeaderError(objId, vsn, txType) ==
    IF ~ isKeyOfObject(objId, TX_SCHEMA) THEN "DecodeError"
    ELSE IF ~ IsNullish(txType) /\ NumOf(txType) # objId THEN "DecodeError"
    ELSE IF ~ isKeyOfObject(vsn, TX_SCHEMA[objId]) THEN "SchemaNotFoundError"
    ELSE ""

\* lines 309-312: the unpacked transaction, or the error unpackRawTx threw
TxUnpacked(tx, rlpEncoded) == IF IsErr(tx) THEN tx ELSE JUnpacked(tx, rlpEncoded)

unpackTx(encodedTx, txType) ==
    LET rlpEncoded == decode(encodedTx)
        binary == rlpDecode(rlpEncoded).v
        objId == ElemInt(binary, 1)
        vsn == ElemInt(binary, 2)
        thrown == HeaderError(objId, vsn, txType)
    IN  IF thrown # "" THEN JErr(thrown)
        ELSE TxUnpacked(unpackRawTx(binary, TX_SCHEMA[objId][vsn]), rlpEncoded)

(***************************************************************************)
(* buildTx(_params, type, { excludeKeys, prefix, vsn, denomination }).     *)
(* vsn is <<>> when the option is not given and <<v>> when it is.  The     *)
(* result holds the thrown error (err, "" when none), the returned fields  *)
(* and params, the caller's object as the call leaves it.                  *)
(***************************************************************************)
AETTOS == JStr(<<97>>)

BuildThrow(e, params, valid) ==
    [err |-> e, params |-> params, valid |-> valid, tx |-> Undef,
     rlpEncoded |-> <<>>, binary |-> <<>>, txObject |-> Undef]

\* a stamping that also advances the nonce in the caller's object
StampParamsAdvancingNonce(params, type, vsn, denomination) ==
    LET stamped == Put(Put(Put(params, "VSN", JNum(vsn)), "tag", JNum(type)),
                       "denomination", denomination)
    IN  IF "nonce" \in DOMAIN params /\ params["nonce"].k = "num"
        THEN Put(stamped, "nonce", JNum(params["nonce"].n + 1))
        ELSE stamped

\* lines 240-242: the version, the tag and the denomination are written
\* into the caller's object
StampParams(params, type, vsn, denomination) ==
    Put(Put(Put(params, "VSN", JNum(vsn)), "tag", JNum(type)),
        "denomination", denomination)

SeqMin(S) == CHOOSE x \in S : \A y \in S : x <= y

\* the least registered version
DefaultVsnLeast(schemas) == SeqMin(DOMAIN schemas)

\* line 234: the greatest registered version
DefaultVsn(schemas) == SeqMax(DOMAIN schemas)

\* lines 251-269: the serialized fields of the filtered schema
SerializeAll(params, filteredSchema) ==
    LET all == [i \in 1..Len(filteredSchema) |->
                  serializeField(Get(params, filteredSchema[i].key),
                                 filteredSchema[i].type, params)]
    IN  SelectSeq(all, LAMBDA e : e.k # "undef")

\* line 277: the eager unpacking of the serialized fields
EagerUnpack(binary, schema) == unpackRawTx(binary, schema)

\* lines 271-278: the result of a call whose fields serialized to binary
BuildReturn(params, valid, binary, rlpEncoded, txObject, prefix) ==
    IF IsErr(txObject) THEN BuildThrow(txObject.e, params, valid)
    ELSE [err |-> "", params |-> params, valid |-> valid,
          tx |-> encode(rlpEncoded, prefix),
          rlpEncoded |-> rlpEncoded, binary |-> binary, txObject |-> txObject]

buildTx(params0, type, excludeKeys, prefix, vsnOpt) ==
    IF ~ isKeyOfObject(type, TX_SCHEMA)
    THEN BuildThrow("TypeError", params0, <<>>)
    ELSE
    LET schemas == TX_SCHEMA[type]
        vsn == IF vsnOpt = <<>> THEN DefaultVsn(schemas) ELSE vsnOpt[1]
    IN  IF ~ isKeyOfObject(vsn, schemas)
        THEN BuildThrow("SchemaNotFoundError", params0, <<>>)
        ELSE
        LET schema == schemas[vsn]
            params == StampParams(params0, type, vsn, AETTOS)
            filteredSchema == FilterSchema(schema, excludeKeys)
            valid == validateParams(params, schema, excludeKeys)
        IN  IF DOMAIN valid # {}
            THEN BuildThrow("InvalidTxParamsError", params, valid)
            ELSE
            LET binary == SerializeAll(params, filteredSchema)
                failed == {i \in 1..Len(binary) : IsErr(binary[i])}
            IN  IF failed # {}
                THEN BuildThrow(binary[CHOOSE i \in failed :
                                          \A j \in failed : i <= j].e, params, valid)
                ELSE BuildReturn(params, valid, binary, rlpEncode(RlpL(binary)),
                                 EagerUnpack(binary, schema), prefix)

(***************************************************************************)
(* The codec's callers.  A run is one scenario: a buildTx call on an       *)
(* object of the caller, followed by a second buildTx call on that same    *)
(* object or by unpackTx of the built transaction; or an unpackTx call on  *)
(* a byte sequence that no buildTx call made.                              *)
(***************************************************************************)
VARIABLES
    mode,       \* "build" or "unpack": the scenario of the run
    bpc,        \* the caller's position
    bType,      \* buildTx: the tag
    bVsn,       \* buildTx: the vsn option, <<>> when not given
    bExclude,   \* buildTx: the excludeKeys option
    bParams0,   \* buildTx: the fields as the caller wrote them
    bObj,       \* the caller's fields object, as the calls leave it
    bRes,       \* the outcome of the first buildTx call
    bRes2,      \* the outcome of the second buildTx call on the same object
    uBin,       \* unpackTx: the top-level elements of the bytes given
    uExp,       \* unpackTx: the expected tag (txType), Undef when not given
    uRes        \* the outcome of unpackTx

codecVars == <<mode, bpc, bType, bVsn, bExclude, bParams0, bObj, bRes, bRes2,
               uBin, uExp, uRes>>

\* the state of a verifyTransaction call and of the node it queries
VARIABLES
    vpc,        \* the caller's position: "start", "running", "returned", "threw"
    vTx,        \* the transaction given to the top-level call
    frames,     \* the verifyTransaction calls of the run, the top-level one first
    caches,     \* the response cache of each Node object that has the cache policy
    sent,       \* the number of requests the node has received, by request
    chain,      \* the chain state of the node
    vRes        \* the findings the top-level call returned, or the error it threw

valVars == <<vpc, vTx, frames, caches, sent, chain, vRes>>

\* no verifyTransaction call in the run
ValidatorIdle ==
    /\ vpc = "idle"
    /\ vTx = Undef
    /\ frames = <<>>
    /\ caches = <<>>
    /\ sent = <<>>
    /\ chain = <<>>
    /\ vRes = <<>>

\* the state of a call that resolves the nonce and the ttl of a transaction
\* (tx/index.ts) and of the node it queries
VARIABLES
    rpc,        \* the call's position
    rFn,        \* the function called: "prepareTxParams" or "_buildTx"
    rType,      \* the transaction type given to the call
    rArgs,      \* the options given to the call
    rParams,    \* the parameters as resolved so far
    rNode,      \* the node: its height, the sender's account
    rLog,       \* the requests the call has sent to the node, with the answers
    rRes        \* what the call returned, or the error it threw

resVars == <<rpc, rFn, rType, rArgs, rParams, rNode, rLog, rRes>>

\* no resolving call in the run
ResolverIdle ==
    /\ rpc = "idle"
    /\ rFn = "none"
    /\ rType = 0
    /\ rArgs = <<>>
    /\ rParams = <<>>
    /\ rNode = <<>>
    /\ rLog = <<>>
    /\ rRes = <<>>

\* the state of a Name object (aens.ts) and of the calls made on it
VARIABLES
    nSalt,      \* the private field #salt
    nCalls,     \* the preclaim and claim calls made on the object
    nLog        \* what happened, in order: calls, builds, sends, completions

nameVars == <<nSalt, nCalls, nLog>>

\* no Name object in the run
NameIdle ==
    /\ nSalt = <<>>
    /\ nCalls = <<>>
    /\ nLog = <<>>

\* the state of an Oracle object (oracle/Oracle.ts), of its polling loops
\* and of the node they query
VARIABLES
    oQueries,   \* the ids of the queries the node holds for the oracle
    oSessions   \* the pollQueries calls made, each with its loop

pollVars == <<oQueries, oSessions>>

\* the state of the query handlers of the Oracle object (handleQueries)
VARIABLES
    oPromise,   \* the private field #handleQueriesPromise
    oTasks,     \* the calls of handler(query), one per query given to a handler
    oStops      \* the calls of the stop functions of the handlers

handlerVars == <<oPromise, oTasks, oStops>>

\* no Oracle object in the run
OracleIdle ==
    /\ oQueries = <<>>
    /\ oSessions = <<>>
    /\ oPromise = <<>>
    /\ oTasks = <<>>
    /\ oStops = <<>>

\* the state of a Contract object and of its $deploy calls
VARIABLES
    cInit,      \* the address given to the constructor, if any
    cAddress,   \* $options.address
    cCalls      \* the $deploy calls, each with its position and its error

ctrVars == <<cInit, cAddress, cCalls>>

\* no Contract object in the run
ContractIdle ==
    /\ cInit = <<>>
    /\ cAddress = <<>>
    /\ cCalls = <<>>

\* the state of an AeSdkBase object and of its signTransaction calls
VARIABLES
    sPool,      \* the names of the nodes in the pool
    sSelected,  \* selectedNodeName
    sCalls      \* the signTransaction calls

sdkVars == <<sPool, sSelected, sCalls>>

\* no AeSdkBase object in the run
SdkIdle ==
    /\ sPool = <<>>
    /\ sSelected = <<>>
    /\ sCalls = <<>>

appVars == <<nameVars, pollVars, handlerVars, ctrVars, sdkVars>>

AppIdle == NameIdle /\ OracleIdle /\ ContractIdle /\ SdkIdle

libVars == <<codecVars, valVars, resVars>>

\* a tag no schema is registered for
UnregisteredTag == CHOOSE t \in 90..99 : t \notin DOMAIN TX_SCHEMA

\* the values a caller gives a field, by the field's key
FieldValues(key) ==
    CASE key = "senderId" -> {Undef, JEnc("ak", <<1>>), JEnc("ok", <<1>>)}
      [] key \in {"recipientId", "callerId", "owner"} -> {Undef, JEnc("ak", <<2>>)}
      [] key = "contractId" -> {Undef, JEnc("ct", <<3>>)}
      [] key = "nonce" -> {Undef, JNum(1), JNum(300)}
      [] key \in {"ttl", "abiVersion", "flags", "balance"} -> {Undef, JNum(3)}
      [] key \in {"amount", "fee", "gasLimit", "deposit"} -> {Undef, JNum(5)}
      [] key = "gasPrice" -> {Undef, JNum(MIN_GAS_PRICE), JNum(1)}
      [] key = "payload" -> {Undef, JStr(<<104>>), JEnc("ba", <<104>>)}
      [] key = "ctVersion" ->
            {Undef, JCtv(JNum(5), JNum(3)), JCtv(JNum(256), JNum(3)),
             JCtv(JNum(5), Undef)}
      [] key = "active" -> {Undef, JBool(TRUE), JBool(FALSE), JNum(1)}
      [] OTHER -> {Undef}

\* the objects over a sequence of keys; an absent field is a missing key
RECURSIVE Objects(_)
Objects(keys) ==
    IF keys = <<>> THEN {<<>>}
    ELSE LET rest == Objects(Tail(keys))
         IN  UNION {{IF IsNullish(v) THEN o ELSE Put(o, Head(keys), v) :
                        v \in FieldValues(Head(keys))} : o \in rest}

\* the keys a caller may give for a tag
CallerKeys(type) ==
    CASE type = Tag.Account -> <<"flags", "nonce", "balance">>
      [] type = Tag.SpendTx ->
            <<"senderId", "recipientId", "amount", "fee", "ttl", "nonce", "payload">>
      [] type = Tag.Contract -> <<"owner", "ctVersion", "active", "deposit">>
      [] type = Tag.ContractCallTx ->
            <<"callerId", "nonce", "contractId", "abiVersion", "fee", "ttl",
              "amount", "gasPrice">>
      [] OTHER -> <<"nonce">>

BuildTypes ==
    {Tag.Account, Tag.SpendTx, Tag.Contract, Tag.ContractCallTx, UnregisteredTag}

VsnOptions == {<<>>} \cup {<<v>> : v \in 1..MaxVsn}

ExcludeOptions == {{}, {"payload"}, {"fee", "nonce"}}

\* the byte strings the elements of an arbitrary byte sequence are drawn from
ElemBytes == {<<>>, <<1>>, <<2>>, <<Tag.Account>>, <<UnregisteredTag>>}

RECURSIVE SeqsUpTo(_, _)
SeqsUpTo(S, n) ==
    IF n = 0 THEN {<<>>}
    ELSE LET shorter == SeqsUpTo(S, n - 1)
         IN  shorter \cup {Append(q, x) : q \in {r \in shorter : Len(r) = n - 1}, x \in S}

NoResult == [err |-> "none"]

CodecInit ==
    /\ ValidatorIdle
    /\ ResolverIdle
    /\ AppIdle
    /\ bpc = "start"
    /\ bRes = NoResult
    /\ bRes2 = NoResult
    /\ uRes = Undef
    /\ \/ /\ mode = "build"
          /\ bType \in BuildTypes
          /\ bVsn \in VsnOptions
          /\ bExclude \in ExcludeOptions
          /\ bParams0 \in Objects(CallerKeys(bType))
          /\ bObj = bParams0
          /\ uBin = <<>>
          /\ uExp = Undef
       \/ /\ mode = "unpack"
          /\ bType = UnregisteredTag
          /\ bVsn = <<>>
          /\ bExclude = {}
          /\ bParams0 = <<>>
          /\ bObj = <<>>
          /\ uBin \in {[i \in 1..Len(q) |-> RlpB(q[i])] : q \in SeqsUpTo(ElemBytes, MaxElems)}
          /\ uExp \in {Undef, JNum(Tag.Account), JNum(Tag.SpendTx)}

\* a call buildTx(obj, type, { excludeKeys, vsn }) on the caller's object
CallBuildTx ==
    /\ mode = "build"
    /\ bpc = "start"
    /\ bRes' = buildTx(bObj, bType, bExclude, "tx", bVsn)
    /\ bObj' = bRes'.params
    /\ bpc' = "built"
    /\ UNCHANGED <<mode, bType, bVsn, bExclude, bParams0, bRes2, uBin, uExp, uRes>>
    /\ UNCHANGED <<valVars, resVars, appVars>>

\* a second, identical call that reuses the object the first call was given
CallBuildTxAgain ==
    /\ bpc = "built"
    /\ bRes2' = buildTx(bObj, bType, bExclude, "tx", bVsn)
    /\ bObj' = bRes2'.params
    /\ bpc' = "rebuilt"
    /\ UNCHANGED <<mode, bType, bVsn, bExclude, bParams0, bRes, uBin, uExp, uRes>>
    /\ UNCHANGED <<valVars, resVars, appVars>>

\* unpackTx(tx, txType) of the transaction the first call returned
CallUnpackBuilt ==
    /\ bpc = "built"
    /\ bRes.err = ""
    /\ uExp' \in {Undef, JNum(bType), JNum(Tag.SignedTx)}
    /\ uBin' = rlpDecode(decode(bRes.tx)).v
    /\ uRes' = unpackTx(bRes.tx, uExp')
    /\ bpc' = "unpacked"
    /\ UNCHANGED <<mode, bType, bVsn, bExclude, bParams0, bObj, bRes, bRes2>>
    /\ UNCHANGED <<valVars, resVars, appVars>>

\* unpackTx(tx, txType) of bytes that hold the elements uBin
CallUnpackTx ==
    /\ mode = "unpack"
    /\ bpc = "start"
    /\ uRes' = unpackTx(encode(rlpEncode(RlpL(uBin)), "tx"), uExp)
    /\ bpc' = "unpacked"
    /\ UNCHANGED <<mode, bType, bVsn, bExclude, bParams0, bObj, bRes, bRes2, uBin, uExp>>
    /\ UNCHANGED <<valVars, resVars, appVars>>

CodecNext == CallBuildTx \/ CallBuildTxAgain \/ CallUnpackBuilt \/ CallUnpackTx

vars == <<codecVars, valVars, resVars, appVars>>

SpecCodec == CodecInit /\ [][CodecNext]_vars

(***************************************************************************)
(* Properties of the codec.                                                 *)
(***************************************************************************)
\* the schema a buildTx call of the run resolves, when it resolves one
BVsn == IF bVsn = <<>> THEN SeqMax(DOMAIN TX_SCHEMA[bType]) ELSE bVsn[1]
BResolved ==
    /\ mode = "build"
    /\ bType \in DOMAIN TX_SCHEMA
    /\ BVsn \in DOMAIN TX_SCHEMA[bType]
BSchema == TX_SCHEMA[bType][BVsn]
BField(key) == BSchema[CHOOSE i \in 1..Len(BSchema) : BSchema[i].key = key]

\* the header of the bytes given to unpackTx
UTag == ElemInt(uBin, 1)
UVsn == ElemInt(uBin, 2)
UExpectedOk == IsNullish(uExp) \/ uExp.n = UTag

\* the typed value a caller's value of a field stands for: integers read back
\* as decimal strings, an absent amount as 0, an absent gas price as the
\* minimal one, a payload as a ba_ string
NormalValue(v, f) ==
    CASE f.type = "uInt" -> IF v.k = "num" THEN JDec(v.n) ELSE v
      [] f.type = "coinAmount" -> IF IsNullish(v) THEN JDec(0) ELSE JDec(v.n)
      [] f.type = "gasPrice" -> IF IsNullish(v) THEN JDec(MIN_GAS_PRICE) ELSE JDec(v.n)
      [] f.type = "payload" ->
            IF IsNullish(v) THEN JEnc("ba", <<>>)
            ELSE IF v.k = "str" THEN JEnc("ba", v.s) ELSE v
      [] f.type = "ctVersion" ->
            IF v.k = "ctv" /\ v.vmVersion.k = "num" /\ v.abiVersion.k = "num"
            THEN JCtv(JDec(v.vmVersion.n), JDec(v.abiVersion.n)) ELSE v
      [] OTHER -> v

NormalFields ==
    [key \in SchemaKeys(BSchema) |->
        IF key = "tag" THEN JNum(bType)
        ELSE IF key = "VSN" THEN JNum(BVsn)
        ELSE NormalValue(Get(bParams0, key), BField(key))]

\* every given value has the type of its field
WellTyped ==
    \A i \in 1..Len(BSchema) :
        LET f == BSchema[i]
            v == Get(bParams0, f.key)
        IN  \/ IsNullish(v)
            \/ /\ f.type = "binary" => (v.k = "enc" /\ v.p = f.prefix)
               /\ f.type = "bool" => v.k = "bool"
               /\ f.type = "ctVersion" =>
                    /\ v.vmVersion.k = "num" /\ v.vmVersion.n < 256
                    /\ v.abiVersion.k = "num" /\ v.abiVersion.n < 256

RoundTripDone ==
    /\ BResolved
    /\ bpc = "unpacked"
    /\ UExpectedOk

UResolved ==
    /\ isKeyOfObject(UTag, TX_SCHEMA)
    /\ UExpectedOk
    /\ isKeyOfObject(UVsn, TX_SCHEMA[UTag])

MissingFields ==
    {key \in SchemaKeys(BSchema) \ {"tag", "VSN"} :
        /\ key \notin bExclude
        /\ key \notin optionalFields
        /\ IsNullish(Get(bParams0, key))}

\* C4: when a non-excluded, non-exempt field of the schema is absent, buildTx
\* fails with InvalidTxParamsError, returns nothing, and the error names
\* every such field with its message.
C4_AllMissingReported ==
    (BResolved /\ bpc = "built" /\ MissingFields # {}) =>
        /\ bRes.err = "InvalidTxParamsError"
        /\ bRes.tx = Undef
        /\ bRes.rlpEncoded = <<>>
        /\ \A key \in MissingFields :
              key \in DOMAIN bRes.valid /\ bRes.valid[key] = "Field is required"

C4_Witness ==
    /\ BResolved
    /\ bpc = "built"
    /\ Cardinality(MissingFields) >= 3
    /\ bRes.err = "InvalidTxParamsError"

\* the call would succeed without the excludeKeys option
OtherwiseValid ==
    /\ WellTyped
    /\ \A i \in 1..Len(BSchema) :
          LET f == BSchema[i]
              v == Get(bParams0, f.key)
          IN  \/ f.key \in bExclude \cup optionalFields \cup {"tag", "VSN"}
              \/ /\ ~ IsNullish(v)
                 /\ f.type = "ctVersion" => validateField(v, f.type) = ""
    /\ Get(bParams0, "gasPrice") # JNum(1)

\* C5: with excludeKeys naming fields of the schema and otherwise valid
\* parameters, buildTx succeeds and returns the remaining fields in schema
\* order together with the eagerly unpacked result.
C5_ExcludedFieldsBuild ==
    (  BResolved /\ bpc = "built" /\ OtherwiseValid
    /\ bExclude \cap SchemaKeys(BSchema) # {}) =>
        /\ bRes.err = ""
        /\ Len(bRes.binary) = Len(FilterSchema(BSchema, bExclude))
        /\ bRes.txObject # Undef

\* C6: a second buildTx call with the same tag, version and options on the
\* very object the first call was given returns the same bytes and the same
\* encoded string (and fails the same way when the first call failed).
C6_Deterministic ==
    bpc = "rebuilt" =>
        /\ bRes2.err = bRes.err
        /\ bRes2.rlpEncoded = bRes.rlpEncoded
        /\ bRes2.tx = bRes.tx

C6_Witness ==
    /\ bpc = "rebuilt"
    /\ bRes.err = ""
    /\ bType = Tag.ContractCallTx
    /\ Get(bParams0, "nonce") = JNum(300)
    /\ bObj # bParams0

\* C7: buildTx without a version builds with the schema of the greatest
\* registered version and unpackTx reads that version back.
C7_DefaultVersionIsMax ==
    (BResolved /\ bVsn = <<>> /\ bpc = "unpacked" /\ UExpectedOk) =>
        /\ uRes.k = "unpacked"
        /\ uRes.tx["VSN"].n \in DOMAIN TX_SCHEMA[bType]
        /\ \A v \in DOMAIN TX_SCHEMA[bType] : v <= uRes.tx["VSN"].n
        /\ DOMAIN uRes.tx = SchemaKeys(TX_SCHEMA[bType][uRes.tx["VSN"].n])
        /\ bRes.txObject["VSN"] = uRes.tx["VSN"]

C7_Witness ==
    /\ BResolved
    /\ bVsn = <<>>
    /\ bpc = "unpacked"
    /\ bType = Tag.Account
    /\ uRes.k = "unpacked"
    /\ uRes.tx["VSN"] = JNum(2)
    /\ "flags" \in DOMAIN uRes.tx

\* the fields whose absence the claim says never fails validation
ClaimedExempt == {"fee", "gasLimit", "amount", "deposit", "payload", "nameFee"}

\* C8 (as claimed): the fields exempt from the required check are exactly
\* fee, gasLimit, amount, deposit, payload and nameFee.
C8_ExemptAreSix ==
    (BResolved /\ bpc = "built") =>
        /\ \A key \in SchemaKeys(BSchema) \ (bExclude \cup ClaimedExempt \cup {"tag", "VSN"}) :
              IsNullish(Get(bParams0, key)) => bRes.err = "InvalidTxParamsError"
        /\ \A key \in ClaimedExempt : key \notin DOMAIN bRes.valid

\* C8 (amended): the fields exempt from the required check are exactly fee,
\* gasLimit, gasPrice, amount, deposit, payload and nameFee: an absent value
\* of any other non-excluded field fails validation, an absent value of one
\* of these seven never does.
C8_ExemptAreSeven ==
    (BResolved /\ bpc = "built") =>
        /\ \A key \in SchemaKeys(BSchema) \
                        (bExclude \cup ClaimedExempt \cup {"gasPrice", "tag", "VSN"}) :
              IsNullish(Get(bParams0, key)) =>
                  (bRes.err = "InvalidTxParamsError" /\ key \in DOMAIN bRes.valid)
        /\ \A key \in ClaimedExempt \cup {"gasPrice"} : key \notin DOMAIN bRes.valid

C8_Witness ==
    /\ BResolved
    /\ bpc = "built"
    /\ bType = Tag.ContractCallTx
    /\ bExclude = {}
    /\ IsNullish(Get(bParams0, "gasPrice"))
    /\ IsNullish(Get(bParams0, "fee"))
    /\ IsNullish(Get(bParams0, "amount"))
    /\ bRes.err = ""

(***************************************************************************)
(* The validator pipeline (tx/validator.ts).                               *)
(*                                                                         *)
(* Cryptography (utils/crypto): a key pair is modelled by one byte string  *)
(* that is both the secret key and the public key (the data of the         *)
(* account's address); a signature is the key followed by a digest of the  *)
(* signed bytes.                                                           *)
(***************************************************************************)
RECURSIVE ByteSum(_)
ByteSum(bs) == IF bs = <<>> THEN 0 ELSE Head(bs) + ByteSum(Tail(bs))

Digest(bs) == <<Len(bs) % 256, ByteSum(bs) % 256>>

hash(bs) == <<255>> \o Digest(bs)

sign(data, secretKey) == secretKey \o Digest(data)

verify(data, signature, address) == signature = decode(address) \o Digest(data)

\* the bytes of "-inner_tx"
InnerTxSuffix == <<45, 105, 110, 110, 101, 114, 95, 116, 120>>

\* PROTOCOL_VM_ABI of tx/builder/schema: by consensus protocol version and
\* tag, the supported vm and abi versions
ConsensusProtocolVersion == [Iris |-> 5]
PROTOCOL_VM_ABI ==
    ConsensusProtocolVersion.Iris :>
            (   Tag.ContractCreateTx :> [vmVersion |-> {7}, abiVersion |-> {3}]
             @@ Tag.ContractCallTx :> [vmVersion |-> {}, abiVersion |-> {3, 1}])

\* the truthiness of a value
Truthy(v) ==
    CASE v.k = "undef" -> FALSE
      [] v.k = "str" -> v.s # <<>>
      [] v.k = "num" -> v.n # 0
      [] v.k = "bool" -> v.b
      [] OTHER -> TRUE

\* +v: NaN for undefined, 0 for the empty string
ToNumber(v) ==
    CASE v.k = "undef" -> NaN
      [] v.k = "str" -> IF v.s = <<>> THEN 0 ELSE NaN
      [] OTHER -> v.n

\* lines 58-61
SenderKeys ==
    <<"senderId", "accountId", "ownerId", "callerId", "oracleId", "fromId",
      "initiator", "gaId", "payerId">>

\* lines 56-64: the first truthy sender field, ok_ replaced by ak_
getSenderAddress(tx) ==
    LET present == SelectSeq(SenderKeys, LAMBDA key : Truthy(Get(tx, key)))
    IN  IF present = <<>> THEN Undef
        ELSE LET a == tx[present[1]]
             IN  IF a.k = "enc" /\ a.p = "ok" THEN JEnc("ak", a.d) ELSE a

\* lines 92-93
ResolveAddress(tx, txType) ==
    LET own == getSenderAddress(tx)
    IN  IF ~ IsNullish(own) THEN own
        ELSE IF txType = JNum(Tag.SignedTx)
        THEN getSenderAddress(tx["encodedTx"].tx)
        ELSE Undef

\* parentTxTypes.includes(tag)
Includes(types, tag) == \E i \in 1..Len(types) : types[i] = JNum(tag)

(***************************************************************************)
(* The node.  A request is a pair (query, argument); a Node object with    *)
(* the policy 'aggressive-cache-get-responses' (utils/autorest) keeps the  *)
(* response of every GET request it has sent and answers a repeated        *)
(* request from it.                                                        *)
(***************************************************************************)
HeightRequest == <<"getCurrentKeyBlockHeight", <<>>>>
InfoRequest == <<"getNodeInfo", <<>>>>
AccountRequest(address) == <<"getAccountByPubkey", decode(address)>>
ContractRequest(contractId) == <<"getContract", decode(contractId)>>

PendingResponse == [st |-> "pending", body |-> <<>>]

\* the node given by the caller, which has no cache policy
CallerNode == [cached |-> FALSE, id |-> 0]

\* the response cache of a Node object after it is asked to send requests
CacheAfter(cache, requests) ==
    [r \in (DOMAIN cache) \cup requests |->
        IF r \in DOMAIN cache THEN cache[r] ELSE PendingResponse]

\* the requests the node has received after a Node object with this cache
\* is asked to send requests
SentAfter(log, cache, requests) ==
    LET new == requests \ DOMAIN cache
    IN  [r \in (DOMAIN log) \cup new |->
            (IF r \in DOMAIN log THEN log[r] ELSE 0) + (IF r \in new THEN 1 ELSE 0)]

\* the node's answer to a request in a chain state
Answer(request, c) ==
    CASE request = HeightRequest -> [st |-> "ok", body |-> [height |-> c.height]]
      [] request = InfoRequest ->
            [st |-> "ok",
             body |-> [consensusProtocolVersion |-> c.consensusProtocolVersion,
                       nodeNetworkId |-> c.nodeNetworkId]]
      [] request[1] = "getAccountByPubkey" ->
            IF request[2] \in DOMAIN c.accounts
            THEN [st |-> "ok", body |-> c.accounts[request[2]]]
            ELSE [st |-> "notfound", body |-> <<>>]
      [] OTHER ->
            IF request[2] \in DOMAIN c.contracts
            THEN [st |-> "ok", body |-> c.contracts[request[2]]]
            ELSE [st |-> "notfound", body |-> <<>>]

\* a version of the node selection that makes a Node object for every call
UseNodeAlwaysNew(nodeNotCached, nNodes) == [cached |-> TRUE, id |-> nNodes + 1]

\* lines 82-89: a node without the cache policy is replaced by a new Node
\* object with the policy; a node that has it is used as it is
UseNode(nodeNotCached, nNodes) ==
    IF nodeNotCached.cached THEN nodeNotCached
    ELSE [cached |-> TRUE, id |-> nNodes + 1]

(***************************************************************************)
(* The check stages (lines 118-248).  A stage gives its findings, or is    *)
(* pending on a promise, or throws.                                        *)
(***************************************************************************)
Settled(findings) == [st |-> "ok", v |-> findings, e |-> ""]
Pending == [st |-> "pending", v |-> <<>>, e |-> ""]
Thrown(e) == [st |-> "err", v |-> <<>>, e |-> e]

\* a finding: its key, the keys it checked and the numbers of its message
Finding(key, checkedKeys, numbers) ==
    [key |-> key, checkedKeys |-> checkedKeys, numbers |-> numbers]

\* value ?? 0 as a number
OrZero(v) == IF IsNullish(v) THEN 0 ELSE ToNumber(v)

\* lines 119-137
validateSignature(tx, o) ==
    LET encodedTx == Get(tx, "encodedTx")
        signatures == Get(tx, "signatures")
    IN  IF IsNullish(encodedTx) /\ IsNullish(signatures) THEN Settled(<<>>)
        ELSE IF IsNullish(o.account) THEN Settled(<<>>)
        ELSE IF Len(signatures.v) # 1 THEN Settled(<<>>)
        ELSE
        LET prefix == o.nodeNetworkId.s \o
                        (IF Includes(o.parentTxTypes, Tag.PayingForTx)
                         THEN InnerTxSuffix ELSE <<>>)
            txWithNetworkId == prefix \o encodedTx.rlpEncoded
            txHashWithNetworkId == prefix \o hash(encodedTx.rlpEncoded)
        IN  IF \/ verify(txWithNetworkId, signatures.v[1].d, o.account.id)
               \/ verify(txHashWithNetworkId, signatures.v[1].d, o.account.id)
            THEN Settled(<<>>)
            ELSE Settled(<<Finding("InvalidSignature", <<"encodedTx", "signatures">>, <<>>)>>)

\* lines 138-139: encodedTx ?? tx, the nested transaction of a transaction
NestedOf(tx) ==
    IF ~ IsNullish(Get(tx, "encodedTx")) THEN tx["encodedTx"] ELSE Get(tx, "tx")

\* a TTL stage that also flags a ttl equal to the height
validateTtlInclusive(tx, o) ==
    LET ttl == Get(tx, "ttl")
    IN  IF IsNullish(ttl) THEN Settled(<<>>)
        ELSE IF ToNumber(ttl) = 0 \/ ToNumber(ttl) > o.height THEN Settled(<<>>)
        ELSE Settled(<<Finding("ExpiredTTL", <<"ttl">>, <<ToNumber(ttl), o.height>>)>>)

\* lines 146-155
validateTtl(tx, o) ==
    LET ttl == Get(tx, "ttl")
    IN  IF IsNullish(ttl) THEN Settled(<<>>)
        ELSE IF ToNumber(ttl) = 0 \/ ToNumber(ttl) >= o.height THEN Settled(<<>>)
        ELSE Settled(<<Finding("ExpiredTTL", <<"ttl">>, <<ToNumber(ttl), o.height>>)>>)

\* lines 156-171
validateBalance(tx, o) ==
    LET amount == Get(tx, "amount")
        fee == Get(tx, "fee")
        nameFee == Get(tx, "nameFee")
        wrapped == Get(tx, "tx")
    IN  IF IsNullish(o.account) THEN Settled(<<>>)
        ELSE IF IsNullish(amount) /\ IsNullish(fee) /\ IsNullish(nameFee) THEN Settled(<<>>)
        ELSE IF /\ o.txType = JNum(Tag.PayingForTx)
                /\ IsNullish(Get(wrapped.tx, "encodedTx"))
        THEN Thrown("TypeError")
        ELSE
        LET cost == OrZero(fee) + OrZero(nameFee) + OrZero(amount)
                    + (IF o.txType = JNum(Tag.PayingForTx)
                       THEN OrZero(Get(wrapped.tx["encodedTx"].tx, "fee")) ELSE 0)
                    - (IF Includes(o.parentTxTypes, Tag.PayingForTx)
                       THEN OrZero(fee) ELSE 0)
        IN  IF cost <= o.account.balance THEN Settled(<<>>)
            ELSE Settled(<<Finding("InsufficientBalance", <<"amount", "fee", "nameFee">>,
                                   <<o.account.balance, cost>>)>>)

\* lines 172-183
validateAccountKind(tx, o) ==
    IF IsNullish(o.account) THEN Settled(<<>>)
    ELSE IF \/ /\ o.txType = JNum(Tag.SignedTx)
               /\ o.account.kind = "generalized"
               /\ Len(Get(tx, "signatures").v) # 0
            \/ /\ o.txType = JNum(Tag.GaMetaTx)
               /\ o.account.kind = "basic"
    THEN Settled(<<Finding("InvalidAccountType", <<"tag">>, <<>>)>>)
    ELSE Settled(<<>>)

\* a nonce stage that accepts every nonce from the valid one on
validateNonceNeverHigh(tx, o) ==
    LET nonce == Get(tx, "nonce")
    IN  IF \/ IsNullish(nonce)
           \/ IsNullish(o.account)
           \/ Includes(o.parentTxTypes, Tag.GaMetaTx)
        THEN Settled(<<>>)
        ELSE IF ToNumber(nonce) >= o.account.nonce + 1 THEN Settled(<<>>)
        ELSE Settled(<<Finding("NonceAlreadyUsed", <<"nonce">>,
                               <<ToNumber(nonce), o.account.nonce + 1>>)>>)

\* lines 184-201
validateNonce(tx, o) ==
    LET nonce == Get(tx, "nonce")
    IN  IF \/ IsNullish(nonce)
           \/ IsNullish(o.account)
           \/ Includes(o.parentTxTypes, Tag.GaMetaTx)
        THEN Settled(<<>>)
        ELSE LET validNonce == o.account.nonce + 1
             IN  IF ToNumber(nonce) = validNonce THEN Settled(<<>>)
                 ELSE IF ToNumber(nonce) < validNonce
                 THEN Settled(<<Finding("NonceAlreadyUsed", <<"nonce">>,
                                        <<ToNumber(nonce), validNonce>>)>>)
                 ELSE Settled(<<Finding("NonceHigh", <<"nonce">>,
                                        <<ToNumber(nonce), validNonce>>)>>)

\* a VM/ABI stage that lets an unrecognized protocol pass
validateVmAbiAnyProtocol(tx, o) == Settled(<<>>)

\* lines 202-227
validateVmAbi(tx, o) ==
    IF ~ isKeyOfObject(o.consensusProtocolVersion, PROTOCOL_VM_ABI)
    THEN Thrown("UnsupportedProtocolError")
    ELSE
    LET protocol == PROTOCOL_VM_ABI[o.consensusProtocolVersion]
        given == Get(tx, "ctVersion")
        entries == IF IsNullish(given)
                   THEN {<<"abiVersion", Get(tx, "abiVersion")>>}
                   ELSE {<<"vmVersion", given.vmVersion>>,
                         <<"abiVersion", given.abiVersion>>}
    IN  IF ~ (o.txType.k = "num" /\ o.txType.n \in DOMAIN protocol) THEN Settled(<<>>)
        ELSE IF \E e \in entries : ToNumber(e[2]) \notin protocol[o.txType.n][e[1]]
        THEN Settled(<<Finding("VmAndAbiVersionMismatch", <<"ctVersion", "abiVersion">>,
                               <<>>)>>)
        ELSE Settled(<<>>)

\* lines 229-230: whether the contract stage queries the node
QueriesContract(o) == o.txType = JNum(Tag.ContractCallTx)

\* lines 231-246: what the contract stage makes of the node's response
validateContract(response) ==
    CASE response.st = "pending" -> Pending
      [] response.st = "ok" ->
            IF response.body.active THEN Settled(<<>>)
            ELSE Settled(<<Finding("ContractNotActive", <<"contractId">>, <<>>)>>)
      [] response.st = "notfound" ->
            Settled(<<Finding("ContractNotFound", <<"contractId">>, <<>>)>>)
      [] OTHER -> Thrown("RestError")

(***************************************************************************)
(* verifyTransaction (lines 77-116).  A frame is one call: the top-level   *)
(* call or the call the nested-transaction stage of the frame before it    *)
(* made.  Its positions are                                                *)
(*   fetching   awaiting the Promise.all of lines 94-106                   *)
(*   checking   awaiting the Promise.all of lines 108-115                  *)
(*   returned   the call returned its findings                             *)
(*   threw      the call threw                                             *)
(***************************************************************************)
\* lines 91-93: the call's values once the transaction is unpacked; the call
\* throws what unpackTx throws
FrameOf(unpacked, node, parentTxTypes) ==
    [pc |-> IF IsErr(unpacked) THEN "threw" ELSE "fetching",
     node |-> node,
     tx |-> IF IsErr(unpacked) THEN Undef ELSE unpacked.tx,
     txType |-> Get(unpacked, "txType"),
     parentTxTypes |-> parentTxTypes,
     address |-> IF IsErr(unpacked) THEN Undef
                 ELSE ResolveAddress(unpacked.tx, Get(unpacked, "txType")),
     account |-> Undef,
     height |-> NaN,
     consensusProtocolVersion |-> NaN,
     nodeNetworkId |-> Undef,
     stages |-> <<>>,
     result |-> <<>>,
     err |-> IF IsErr(unpacked) THEN unpacked.e ELSE ""]

\* lines 82-93: the call up to its first await
NewFrame(transaction, nodeNotCached, parentTxTypes, nNodes) ==
    FrameOf(unpackTx(transaction, Undef), UseNode(nodeNotCached, nNodes),
            parentTxTypes)

\* lines 94-106: the requests of the first Promise.all
FetchRequests(f) ==
    {HeightRequest, InfoRequest}
        \cup (IF IsNullish(f.address) THEN {} ELSE {AccountRequest(f.address)})

\* the caches and the node's log after a Node object is asked to send requests
WithRequests(cs, log, node, requests) ==
    LET all == IF node.id > Len(cs) THEN Append(cs, <<>>) ELSE cs
    IN  [caches |-> [all EXCEPT ![node.id] = CacheAfter(@, requests)],
         sent |-> SentAfter(log, all[node.id], requests)]

\* lines 95-103: no account without an address, a fresh account for an
\* account the node does not know
AccountOf(address, cache) ==
    IF IsNullish(address) THEN Undef
    ELSE IF cache[AccountRequest(address)].st = "notfound"
    THEN [k |-> "account", id |-> address, balance |-> 0, nonce |-> 0, kind |-> ""]
    ELSE cache[AccountRequest(address)].body

\* line 94: the values the first Promise.all resolves to
Fetched(f, cache) ==
    [f EXCEPT !.account = AccountOf(f.address, cache),
              !.height = cache[HeightRequest].body.height,
              !.consensusProtocolVersion = cache[InfoRequest].body.consensusProtocolVersion,
              !.nodeNetworkId = cache[InfoRequest].body.nodeNetworkId]

\* lines 111-113: the options given to every stage
Options(f) ==
    [txType |-> f.txType, account |-> f.account, height |-> f.height,
     consensusProtocolVersion |-> f.consensusProtocolVersion,
     nodeNetworkId |-> f.nodeNetworkId, parentTxTypes |-> f.parentTxTypes]

\* lines 109-114: the stages called in order, up to their first await
CallStages(f) ==
    <<validateSignature(f.tx, Options(f)),
      IF IsNullish(NestedOf(f.tx)) THEN Settled(<<>>) ELSE Pending,
      validateTtl(f.tx, Options(f)),
      validateBalance(f.tx, Options(f)),
      validateAccountKind(f.tx, Options(f)),
      validateNonce(f.tx, Options(f)),
      validateVmAbi(f.tx, Options(f)),
      IF QueriesContract(Options(f)) THEN Pending ELSE Settled(<<>>)>>

\* the state of stage s of frame i now: the nested-transaction stage settles
\* with the call it made, the contract stage with the node's response
StageNow(fs, cs, i, s) ==
    LET f == fs[i]
    IN  IF s = 2 /\ f.stages[2].st = "pending"
        THEN IF fs[i + 1].pc = "returned" THEN Settled(fs[i + 1].result)
             ELSE IF fs[i + 1].pc = "threw" THEN Thrown(fs[i + 1].err)
             ELSE Pending
        ELSE IF s = 8 /\ f.stages[8].st = "pending"
        THEN validateContract(cs[f.node.id][ContractRequest(f.tx["contractId"])])
        ELSE f.stages[s]

\* a version of flat() that keeps the findings of the first stage that has some
RECURSIVE FlatFirstOnly(_)
FlatFirstOnly(results) ==
    IF results = <<>> THEN <<>>
    ELSE IF Head(results).v # <<>> THEN Head(results).v
    ELSE FlatFirstOnly(Tail(results))

\* line 115: flat()
RECURSIVE Flat(_)
Flat(results) ==
    IF results = <<>> THEN <<>> ELSE Head(results).v \o Flat(Tail(results))

\* what the top-level call has come to
Conclude(fs) ==
    IF fs[1].pc = "returned"
    THEN vpc' = "returned" /\ vRes' = [err |-> "", findings |-> fs[1].result]
    ELSE IF fs[1].pc = "threw"
    THEN vpc' = "threw" /\ vRes' = [err |-> fs[1].err, findings |-> <<>>]
    ELSE UNCHANGED <<vpc, vRes>>

(***************************************************************************)
(* The chain of the node and the transactions given to verifyTransaction.  *)
(***************************************************************************)
\* the greatest number of key blocks mined while a call is in progress
MaxBlocks == 2

ak(n) == JEnc("ak", <<n>>)
ct(n) == JEnc("ct", <<n>>)

AccountBody(n, balance, nonce, kind) ==
    [k |-> "account", id |-> ak(n), balance |-> balance, nonce |-> nonce, kind |-> kind]

\* the chain when the call is made: accounts 1 and 9 are basic, account 2
\* is generalized, no other account exists; contract 3 is active, contract
\* 4 is not, no other contract exists
InitialChain(protocol, flaky) ==
    [height |-> 5,
     consensusProtocolVersion |-> protocol,
     nodeNetworkId |-> JStr(<<110>>),
     accounts |-> (   <<1>> :> AccountBody(1, 100, 4, "basic")
                   @@ <<2>> :> AccountBody(2, 50, 0, "generalized")
                   @@ <<9>> :> AccountBody(9, 15, 1, "basic")),
     contracts |-> (<<3>> :> [active |-> TRUE] @@ <<4>> :> [active |-> FALSE]),
     flaky |-> flaky]

InitialChains ==
    {InitialChain(ConsensusProtocolVersion.Iris, FALSE),
     InitialChain(ConsensusProtocolVersion.Iris, TRUE),
     InitialChain(ConsensusProtocolVersion.Iris - 1, FALSE)}

\* a key block is mined that holds a spend of account 1
NextBlock(c) ==
    [c EXCEPT !.height = @ + 1,
              !.accounts[<<1>>].nonce = @ + 1,
              !.accounts[<<1>>].balance = IF @ >= 30 THEN @ - 30 ELSE @]

\* what the caller composes a transaction of: its tag, its fields, the
\* composition of the transaction it wraps (wraps, <<>> when it wraps none)
\* and, for a signed transaction, who signs it and how (signers)
TxParams(type, fields, wraps, signers) ==
    [type |-> type, fields |-> fields, wraps |-> wraps, signers |-> signers]

Spend(sender, amount, ttl, nonce) ==
    TxParams(Tag.SpendTx,
             [senderId |-> sender, recipientId |-> ak(2), amount |-> JNum(amount),
              fee |-> JNum(10), ttl |-> JNum(ttl), nonce |-> JNum(nonce)], <<>>, <<>>)

ContractCall(contractId, abiVersion, ttl) ==
    TxParams(Tag.ContractCallTx,
             [callerId |-> ak(1), nonce |-> JNum(5), contractId |-> contractId,
              abiVersion |-> JNum(abiVersion), fee |-> JNum(10), ttl |-> JNum(ttl),
              amount |-> JNum(0), gasLimit |-> JNum(7)], <<>>, <<>>)

ContractCreate(vmVersion, abiVersion) ==
    TxParams(Tag.ContractCreateTx,
             [ownerId |-> ak(1), nonce |-> JNum(6),
              ctVersion |-> JCtv(JNum(vmVersion), JNum(abiVersion)),
              fee |-> JNum(10), ttl |-> JNum(0)], <<>>, <<>>)

NameClaim(nameFee) ==
    TxParams(Tag.NameClaimTx,
             [accountId |-> ak(1), nonce |-> JNum(5), name |-> JStr(<<97>>),
              nameSalt |-> JNum(1), nameFee |-> JNum(nameFee), fee |-> JNum(10),
              ttl |-> JNum(0)], <<>>, <<>>)

\* a signer: its key, whether it signs the transaction as an inner
\* transaction, whether it signs the hash of the transaction
Signer(key, inner, hashed) == [key |-> key, inner |-> inner, hashed |-> hashed]

Signed(signers, wrapped) == TxParams(Tag.SignedTx, <<>>, <<wrapped>>, signers)

PayingFor(payer, nonce, signed) ==
    TxParams(Tag.PayingForTx,
             [payerId |-> payer, nonce |-> JNum(nonce), fee |-> JNum(10)],
             <<signed>>, <<>>)

GaMeta(gaId, signed) ==
    TxParams(Tag.GaMetaTx,
             [gaId |-> gaId, abiVersion |-> JNum(3), fee |-> JNum(10)],
             <<signed>>, <<>>)

\* the signature of a transaction: over the network id, the inner marker
\* when it is signed as an inner transaction, and the transaction's bytes or
\* their hash
SignatureOf(signer, transaction) ==
    sign(<<110>> \o (IF signer.inner THEN InnerTxSuffix ELSE <<>>)
            \o (IF signer.hashed THEN hash(decode(transaction))
                ELSE decode(transaction)),
         signer.key)

\* the fields given to buildTx, wrapped being the built wrapped transaction
FieldsOf(p, wrapped) ==
    CASE p.type = Tag.SignedTx ->
            [signatures |-> JList([i \in 1..Len(p.signers) |->
                                    JBuf(SignatureOf(p.signers[i], wrapped))]),
             encodedTx |-> JBuf(decode(wrapped))]
      [] p.type # Tag.SignedTx /\ p.wraps # <<>> ->
            Put(p.fields, "tx", JBuf(decode(wrapped)))
      [] OTHER -> p.fields

\* the transaction built of a composition, innermost first
RECURSIVE TxOf(_)
TxOf(p) ==
    buildTx(FieldsOf(p, IF p.wraps = <<>> THEN Undef ELSE TxOf(p.wraps[1])),
            p.type, {}, "tx", <<>>).tx

\* transactions without a nested transaction
PlainTxs ==
    {Spend(ak(1), amount, ttl, nonce) :
        amount \in {20, 200}, ttl \in {0, 3, 5, 9}, nonce \in {4, 5, 6}}
    \cup {Spend(ak(7), 20, 0, nonce) : nonce \in {0, 1, 2}}
    \cup {ContractCall(contractId, abiVersion, ttl) :
            contractId \in {ct(3), ct(4), ct(6)}, abiVersion \in {3, 9}, ttl \in {0, 3}}
    \cup {ContractCreate(7, 3), ContractCreate(5, 3), ContractCreate(7, 1)}
    \cup {NameClaim(5), NameClaim(95)}

\* the spend that the nested transactions wrap; signed by its sender, signed
\* as an inner transaction, without signature
InnerSpend == Spend(ak(1), 20, 0, 5)
SignedSpend == Signed(<<Signer(<<1>>, FALSE, FALSE)>>, InnerSpend)
SignedSpendInner == Signed(<<Signer(<<1>>, TRUE, FALSE)>>, InnerSpend)
UnsignedSpend == Signed(<<>>, InnerSpend)

\* the meta-transaction of a generalized account
GaMetaSpend == GaMeta(ak(2), Signed(<<>>, Spend(ak(2), 20, 0, 0)))

\* transactions with nested transactions: signed spends (also signed over
\* the hash, by another key, by two keys, by two wrong keys, expired), fee-sponsorship
\* containers (one of a spend that is not signed), generalized-account
\* meta-transactions
NestedTxs ==
    {SignedSpend, SignedSpendInner, UnsignedSpend,
     Signed(<<Signer(<<1>>, FALSE, TRUE)>>, InnerSpend),
     Signed(<<Signer(<<2>>, FALSE, FALSE)>>, InnerSpend),
     Signed(<<Signer(<<2>>, FALSE, FALSE), Signer(<<1>>, FALSE, FALSE)>>, InnerSpend),
     Signed(<<Signer(<<2>>, FALSE, FALSE), Signer(<<2>>, FALSE, TRUE)>>, InnerSpend),
     Signed(<<Signer(<<1>>, FALSE, FALSE)>>, Spend(ak(1), 20, 3, 4)),
     PayingFor(ak(9), 2, SignedSpendInner),
     PayingFor(ak(9), 2, SignedSpend),
     PayingFor(ak(1), 5, SignedSpendInner),
     PayingFor(ak(9), 2, InnerSpend),
     GaMetaSpend,
     GaMeta(ak(1), UnsignedSpend),
     PayingFor(ak(9), 2, Signed(<<Signer(<<2>>, TRUE, FALSE)>>, GaMetaSpend))}

\* bytes that unpackTx rejects
UndecodableTxs ==
    {encode(rlpEncode(RlpL(<<RlpB(<<UnregisteredTag>>), RlpB(<<1>>)>>)), "tx")}

\* the transactions given to verifyTransaction
ValidatorTxs == {TxOf(p) : p \in PlainTxs \cup NestedTxs} \cup UndecodableTxs

(***************************************************************************)
(* A run of the validator: one top-level verifyTransaction call on a node  *)
(* whose chain advances and whose responses arrive while the call is in    *)
(* progress.                                                               *)
(***************************************************************************)
\* no codec call in the run
CodecIdle ==
    /\ mode = "idle"
    /\ bpc = "idle"
    /\ bType = UnregisteredTag
    /\ bVsn = <<>>
    /\ bExclude = {}
    /\ bParams0 = <<>>
    /\ bObj = <<>>
    /\ bRes = NoResult
    /\ bRes2 = NoResult
    /\ uBin = <<>>
    /\ uExp = Undef
    /\ uRes = Undef

NoVerdict == [err |-> "none", findings |-> <<>>]

ValidatorInit ==
    /\ CodecIdle
    /\ ResolverIdle
    /\ AppIdle
    /\ vpc = "start"
    /\ vTx \in ValidatorTxs
    /\ chain \in InitialChains
    /\ frames = <<>>
    /\ caches = <<>>
    /\ sent = <<>>
    /\ vRes = NoVerdict

\* verifyTransaction(vTx, node): the top-level call up to its first await
VerifyTransaction ==
    /\ vpc = "start"
    /\ \E f \in {NewFrame(vTx, CallerNode, <<>>, Len(caches))} :
          IF f.pc = "threw"
          THEN /\ vpc' = "threw"
               /\ vRes' = [err |-> f.err, findings |-> <<>>]
               /\ UNCHANGED <<frames, caches, sent>>
          ELSE \E w \in {WithRequests(caches, sent, f.node, FetchRequests(f))} :
                /\ frames' = <<f>>
                /\ caches' = w.caches
                /\ sent' = w.sent
                /\ vpc' = "running"
                /\ UNCHANGED vRes
    /\ UNCHANGED <<vTx, chain>>
    /\ UNCHANGED <<codecVars, resVars, appVars>>

\* the node answers a request from its chain state
NodeRespond ==
    /\ vpc = "running"
    /\ \E id \in 1..Len(caches) : \E r \in DOMAIN caches[id] :
          /\ caches[id][r].st = "pending"
          /\ caches' = [caches EXCEPT ![id][r] = Answer(r, chain)]
    /\ UNCHANGED <<vpc, vTx, frames, sent, chain, vRes>>
    /\ UNCHANGED <<codecVars, resVars, appVars>>

\* a request fails for a reason other than 'not found'
NodeFail ==
    /\ vpc = "running"
    /\ chain.flaky
    /\ \E id \in 1..Len(caches) : \E r \in DOMAIN caches[id] :
          /\ caches[id][r].st = "pending"
          /\ caches' = [caches EXCEPT ![id][r] = [st |-> "fail", body |-> <<>>]]
    /\ UNCHANGED <<vpc, vTx, frames, sent, chain, vRes>>
    /\ UNCHANGED <<codecVars, resVars, appVars>>

\* the chain advances while the call is in progress
ChainAdvance ==
    /\ vpc = "running"
    /\ chain.height < InitialChain(0, FALSE).height + MaxBlocks
    /\ chain' = NextBlock(chain)
    /\ UNCHANGED <<vpc, vTx, frames, caches, sent, vRes>>
    /\ UNCHANGED <<codecVars, resVars, appVars>>

\* lines 94-106: the first Promise.all rejects
FetchRejected(i) ==
    /\ vpc = "running"
    /\ frames[i].pc = "fetching"
    /\ \E r \in FetchRequests(frames[i]) : caches[frames[i].node.id][r].st = "fail"
    /\ frames' = [frames EXCEPT ![i].pc = "threw", ![i].err = "RestError"]
    /\ Conclude(frames')
    /\ UNCHANGED <<vTx, caches, sent, chain>>
    /\ UNCHANGED <<codecVars, resVars, appVars>>

\* the first stage that threw
FirstThrown(stages) ==
    stages[CHOOSE s \in 1..Len(stages) :
                /\ stages[s].st = "err"
                /\ \A t \in 1..(s - 1) : stages[t].st # "err"]

\* the frame after its stages are called: it awaits them unless one threw
Checking(f, stages) ==
    IF \E s \in 1..Len(stages) : stages[s].st = "err"
    THEN [f EXCEPT !.pc = "threw", !.stages = stages, !.err = FirstThrown(stages).e]
    ELSE [f EXCEPT !.pc = "checking", !.stages = stages]

\* lines 140-144: the calls the nested-transaction stage makes
NestedCalls(f, nNodes) ==
    IF IsNullish(NestedOf(f.tx)) THEN <<>>
    ELSE <<NewFrame(encode(NestedOf(f.tx).rlpEncoded, "tx"), f.node,
                    Append(f.parentTxTypes, f.txType), nNodes)>>

\* the requests the stages of a frame send: those of the nested call's first
\* Promise.all, then the contract query
StageRequests(cs, log, f, children) ==
    IF children = <<>> \/ children[1].pc = "threw" THEN [caches |-> cs, sent |-> log]
    ELSE WithRequests(cs, log, children[1].node, FetchRequests(children[1]))

ContractRequests(w, f) ==
    IF f.pc = "checking" /\ QueriesContract(Options(f))
    THEN WithRequests(w.caches, w.sent, f.node, {ContractRequest(f.tx["contractId"])})
    ELSE w

\* lines 94-114: the first Promise.all resolves and every stage is called
RunStages(i) ==
    /\ vpc = "running"
    /\ frames[i].pc = "fetching"
    /\ \A r \in FetchRequests(frames[i]) :
          caches[frames[i].node.id][r].st \in {"ok", "notfound"}
    /\ \E fetched \in {Fetched(frames[i], caches[frames[i].node.id])} :
       \E f \in {Checking(fetched, CallStages(fetched))} :
       \E children \in {NestedCalls(fetched, Len(caches))} :
       \E w \in {ContractRequests(StageRequests(caches, sent, f, children), f)} :
          /\ frames' = [frames EXCEPT ![i] = f] \o children
          /\ caches' = w.caches
          /\ sent' = w.sent
    /\ Conclude(frames')
    /\ UNCHANGED <<vTx, chain>>
    /\ UNCHANGED <<codecVars, resVars, appVars>>

\* lines 108-115: the second Promise.all resolves and the call returns
FrameReturn(i) ==
    /\ vpc = "running"
    /\ frames[i].pc = "checking"
    /\ \A s \in 1..8 : StageNow(frames, caches, i, s).st = "ok"
    /\ frames' = [frames EXCEPT
                    ![i].pc = "returned",
                    ![i].result = Flat([s \in 1..8 |-> StageNow(frames, caches, i, s)])]
    /\ Conclude(frames')
    /\ UNCHANGED <<vTx, caches, sent, chain>>
    /\ UNCHANGED <<codecVars, resVars, appVars>>

\* lines 108-115: the second Promise.all rejects and the call throws
FrameThrow(i) ==
    /\ vpc = "running"
    /\ frames[i].pc = "checking"
    /\ \E s \in 1..8 :
          /\ StageNow(frames, caches, i, s).st = "err"
          /\ frames' = [frames EXCEPT ![i].pc = "threw",
                                      ![i].err = StageNow(frames, caches, i, s).e]
    /\ Conclude(frames')
    /\ UNCHANGED <<vTx, caches, sent, chain>>
    /\ UNCHANGED <<codecVars, resVars, appVars>>

ValidatorNext ==
    \/ VerifyTransaction
    \/ NodeRespond
    \/ NodeFail
    \/ ChainAdvance
    \/ \E i \in 1..Len(frames) : FetchRejected(i)
    \/ \E i \in 1..Len(frames) : RunStages(i)
    \/ \E i \in 1..Len(frames) : FrameReturn(i)
    \/ \E i \in 1..Len(frames) : FrameThrow(i)

SpecValidator == ValidatorInit /\ [][ValidatorNext]_vars

(***************************************************************************)
(* Finding completeness (C9).  Top is the top-level call; the failure      *)
(* condition of a stage is stated on the transaction and on the values the *)
(* call fetched.                                                           *)
(***************************************************************************)
Top == frames[1]

TopTag == NumOf(Top.tx["tag"])

\* the call returned its findings for a transaction that wraps no other
PlainReturned == vpc = "returned" /\ IsNullish(NestedOf(Top.tx))

\* TTL: a non-zero ttl below the height
FailsTtl ==
    /\ ~ IsNullish(Get(Top.tx, "ttl"))
    /\ ToNumber(Top.tx["ttl"]) # 0
    /\ ToNumber(Top.tx["ttl"]) < Top.height

\* balance: fee + nameFee + amount exceeds the sender's balance
FailsBalance ==
    /\ ~ IsNullish(Top.account)
    /\ OrZero(Get(Top.tx, "fee")) + OrZero(Get(Top.tx, "nameFee"))
            + OrZero(Get(Top.tx, "amount")) > Top.account.balance

\* nonce: not the sender's nonce plus one
FailsNonce ==
    /\ ~ IsNullish(Top.account)
    /\ ~ IsNullish(Get(Top.tx, "nonce"))
    /\ ToNumber(Top.tx["nonce"]) # Top.account.nonce + 1

\* VM/ABI: a declared version outside the sets the protocol supports for the
\* transaction's type
FailsVmAbi ==
    LET protocol == PROTOCOL_VM_ABI[Top.consensusProtocolVersion]
    IN  /\ TopTag \in DOMAIN protocol
        /\ IF ~ IsNullish(Get(Top.tx, "ctVersion"))
           THEN \/ ToNumber(Top.tx["ctVersion"].vmVersion) \notin protocol[TopTag].vmVersion
                \/ ToNumber(Top.tx["ctVersion"].abiVersion) \notin protocol[TopTag].abiVersion
           ELSE ToNumber(Get(Top.tx, "abiVersion")) \notin protocol[TopTag].abiVersion

\* contract liveness: the contract called does not exist or is not active
FailsContract ==
    /\ TopTag = Tag.ContractCallTx
    /\ \/ decode(Top.tx["contractId"]) \notin DOMAIN chain.contracts
       \/ ~ chain.contracts[decode(Top.tx["contractId"])].active

\* the keys of the findings of each stage that a transaction wrapping no
\* other can fail
StageKeys ==
    [ttl |-> {"ExpiredTTL"},
     balance |-> {"InsufficientBalance"},
     nonce |-> {"NonceAlreadyUsed", "NonceHigh"},
     vmAbi |-> {"VmAndAbiVersionMismatch"},
     contract |-> {"ContractNotActive", "ContractNotFound"}]

FailingStages ==
    {s \in DOMAIN StageKeys :
        CASE s = "ttl" -> FailsTtl
          [] s = "balance" -> FailsBalance
          [] s = "nonce" -> FailsNonce
          [] s = "vmAbi" -> FailsVmAbi
          [] OTHER -> FailsContract}

FindingsOf(s) ==
    {i \in 1..Len(vRes.findings) : vRes.findings[i].key \in StageKeys[s]}

\* C9: for a transaction without a nested transaction, the findings returned
\* are exactly one for each stage whose failure condition holds and none for
\* any other stage, so k failing stages give exactly k findings
C9_FindingCompleteness ==
    PlainReturned =>
        /\ \A s \in DOMAIN StageKeys :
              Cardinality(FindingsOf(s)) = IF s \in FailingStages THEN 1 ELSE 0
        /\ Len(vRes.findings) = Cardinality(FailingStages)

(***************************************************************************)
(* One snapshot of the chain per top-level call (C10).                     *)
(***************************************************************************)
\* the calls that have fetched their values
FetchedFrames == {i \in 1..Len(frames) : frames[i].stages # <<>>}

\* the states the chain passes through during a call
RECURSIVE ChainAfter(_, _)
ChainAfter(c, blocks) == IF blocks = 0 THEN c ELSE NextBlock(ChainAfter(c, blocks - 1))

ChainStates ==
    {ChainAfter(InitialChain(chain.consensusProtocolVersion, chain.flaky), blocks) :
        blocks \in 0..MaxBlocks}

\* the account a call makes of an address in a chain state
AccountIn(c, address) ==
    AccountOf(address, [r \in {AccountRequest(address)} |-> Answer(r, c)])

\* the values of a call are those of the chain state c
SeesChain(f, c) ==
    /\ f.height = c.height
    /\ f.consensusProtocolVersion = c.consensusProtocolVersion
    /\ f.nodeNetworkId = c.nodeNetworkId
    /\ f.account = AccountIn(c, f.address)

ProtocolRecognized == isKeyOfObject(chain.consensusProtocolVersion, PROTOCOL_VM_ABI)

\* a request of the call failed for a reason other than 'not found'
SomeQueryFailed ==
    \E id \in 1..Len(caches) : \E r \in DOMAIN caches[id] : caches[id][r].st = "fail"

\* the node has a request to answer, or a call has all it awaits
CanStep ==
    \/ \E id \in 1..Len(caches) : \E r \in DOMAIN caches[id] :
          caches[id][r].st = "pending"
    \/ \E i \in 1..Len(frames) :
          /\ frames[i].pc = "fetching"
          /\ \A r \in FetchRequests(frames[i]) :
                caches[frames[i].node.id][r].st \in {"ok", "notfound"}
    \/ \E i \in 1..Len(frames) :
          /\ frames[i].pc = "checking"
          /\ \/ \A t \in 1..8 : StageNow(frames, caches, i, t).st = "ok"
             \/ \E t \in 1..8 : StageNow(frames, caches, i, t).st = "err"

\* C11: a call on a decodable transaction throws only UnsupportedProtocolError
\* for an unrecognized protocol or the error of a failed query, it does not
\* return when the protocol is unrecognized, and while it has neither
\* returned nor thrown and no query has failed, it can take a step
C11_FindingsAreAdvisory ==
    /\ (vpc = "threw" /\ frames # <<>>) =>
          \/ vRes.err = "UnsupportedProtocolError" /\ ~ ProtocolRecognized
          \/ vRes.err = "RestError" /\ SomeQueryFailed
    /\ vpc = "returned" => ProtocolRecognized
    /\ (vpc = "running" /\ ~ SomeQueryFailed) => CanStep

\* the call returned two findings for a transaction whose sender does not
\* exist on the chain
C11_Witness ==
    /\ vpc = "returned"
    /\ Len(vRes.findings) >= 2
    /\ ~ IsNullish(Top.address)
    /\ decode(Top.address) \notin DOMAIN chain.accounts
    /\ Top.account.balance = 0
    /\ Top.account.nonce = 0

(***************************************************************************)
(* The nonce stage (C12, C13).  The calls of a top-level call nest one in  *)
(* the other: call i was made by call i - 1.                               *)
(***************************************************************************)
\* the tag of the transaction of call i
TagOf(i) == NumOf(frames[i].tx["tag"])

\* the transaction of call i is wrapped, at some depth, by a generalized-
\* account meta-transaction
ThroughGaMeta(i) == \E j \in 1..(i - 1) : TagOf(j) = Tag.GaMetaTx

\* the calls whose transaction carries a nonce and whose sender is resolved
NonceChecked ==
    {i \in FetchedFrames :
        /\ ~ IsNullish(Get(frames[i].tx, "nonce"))
        /\ ~ IsNullish(frames[i].account)}

NonceFindings(i) == frames[i].stages[6].v

\* C12: outside a generalized-account meta-wrapper, the nonce stage yields
\* no finding iff nonce = N + 1, one NonceAlreadyUsed iff nonce <= N and one
\* NonceHigh iff nonce >= N + 2, N being the nonce of the sender's account
C12_NonceBoundary ==
    \A i \in NonceChecked :
        ~ ThroughGaMeta(i) =>
            LET nonce == ToNumber(frames[i].tx["nonce"])
                N == frames[i].account.nonce
                found == NonceFindings(i)
            IN  /\ Len(found) <= 1
                /\ found = <<>> <=> nonce = N + 1
                /\ (found # <<>> /\ found[1].key = "NonceAlreadyUsed") <=> nonce <= N
                /\ (found # <<>> /\ found[1].key = "NonceHigh") <=> nonce >= N + 2

\* the three cases on the call's result: a sender missing on the chain (N = 0)
\* with nonce 2 is reported NonceHigh
C12_Witness ==
    /\ vpc = "returned"
    /\ 1 \in NonceChecked
    /\ decode(Top.address) \notin DOMAIN chain.accounts
    /\ Top.account.nonce = 0
    /\ ToNumber(Top.tx["nonce"]) = 2
    /\ \E j \in 1..Len(vRes.findings) : vRes.findings[j].key = "NonceHigh"

\* C13: a transaction reached through a generalized-account meta-wrapper
\* gets no NonceAlreadyUsed and no NonceHigh finding
C13_NoNonceFindingUnderGaMeta ==
    \A i \in NonceChecked : ThroughGaMeta(i) => NonceFindings(i) = <<>>

(***************************************************************************)
(* The TTL stage (C14).                                                    *)
(***************************************************************************)
\* the calls whose transaction carries a ttl
TtlChecked == {i \in FetchedFrames : ~ IsNullish(Get(frames[i].tx, "ttl"))}

TtlFlagged(i) ==
    /\ Len(frames[i].stages[3].v) = 1
    /\ frames[i].stages[3].v[1].key = "ExpiredTTL"

\* C14 as stated: ExpiredTTL exactly when the ttl is non-zero and at most the
\* height
C14_ExpiredAtHeight ==
    \A i \in TtlChecked :
        /\ Len(frames[i].stages[3].v) <= 1
        /\ TtlFlagged(i) <=> /\ ToNumber(frames[i].tx["ttl"]) # 0
                             /\ ToNumber(frames[i].tx["ttl"]) <= frames[i].height

\* C14 as the code has it: ExpiredTTL exactly when the ttl is non-zero and
\* below the height; a ttl equal to the height is not flagged
C14_ExpiredBelowHeight ==
    \A i \in TtlChecked :
        /\ Len(frames[i].stages[3].v) <= 1
        /\ TtlFlagged(i) <=> /\ ToNumber(frames[i].tx["ttl"]) # 0
                             /\ ToNumber(frames[i].tx["ttl"]) < frames[i].height

\* the call returned without a TTL finding for a ttl equal to the height
C14_Witness ==
    /\ vpc = "returned"
    /\ 1 \in TtlChecked
    /\ ToNumber(Top.tx["ttl"]) = Top.height
    /\ \A j \in 1..Len(vRes.findings) : vRes.findings[j].key # "ExpiredTTL"

(***************************************************************************)
(* The balance stage (C15).                                                *)
(***************************************************************************)
\* the calls whose sender is resolved and whose transaction carries an
\* amount, a fee or a name fee
BalanceChecked ==
    {i \in FetchedFrames :
        /\ ~ IsNullish(frames[i].account)
        /\ \E k \in {"amount", "fee", "nameFee"} : ~ IsNullish(Get(frames[i].tx, k))}

\* the transaction of call i is wrapped, at some depth, by a fee-sponsorship
\* container
ThroughPayingFor(i) == \E j \in 1..(i - 1) : TagOf(j) = Tag.PayingForTx

\* the fee of the signed transaction that a fee-sponsorship container wraps
WrappedFee(tx) ==
    IF IsNullish(Get(tx["tx"].tx, "encodedTx")) THEN 0
    ELSE OrZero(Get(tx["tx"].tx["encodedTx"].tx, "fee"))

\* the cost of the transaction of call i, with the wrap adjustments
CostOf(i) ==
    OrZero(Get(frames[i].tx, "fee")) + OrZero(Get(frames[i].tx, "nameFee"))
        + OrZero(Get(frames[i].tx, "amount"))
        + (IF TagOf(i) = Tag.PayingForTx THEN WrappedFee(frames[i].tx) ELSE 0)
        - (IF ThroughPayingFor(i) THEN OrZero(Get(frames[i].tx, "fee")) ELSE 0)

\* C15: InsufficientBalance iff the cost, with the fee of the wrapped
\* transaction added to a fee-sponsorship container and the own fee taken
\* off a wrapped transaction, exceeds the balance; the finding reports
\* exactly that cost
C15_CostWithWrapAdjustment ==
    \A i \in BalanceChecked :
        LET found == frames[i].stages[4].v
        IN  /\ Len(found) <= 1
            /\ found # <<>> <=> CostOf(i) > frames[i].account.balance
            /\ found # <<>> =>
                    /\ found[1].key = "InsufficientBalance"
                    /\ found[1].numbers = <<frames[i].account.balance, CostOf(i)>>

(***************************************************************************)
(* The signature stage (C16, C17).  The sender of a signed transaction is  *)
(* the sender of the transaction it carries.                               *)
(***************************************************************************)
\* the calls on a signed transaction that carries a transaction with a sender
SignedChecked ==
    {i \in FetchedFrames :
        /\ TagOf(i) = Tag.SignedTx
        /\ ~ IsNullish(getSenderAddress(frames[i].tx["encodedTx"].tx))}

SignerOf(i) == getSenderAddress(frames[i].tx["encodedTx"].tx)

\* the signing prefix of a position: the network id, with the inner marker
\* for a transaction wrapped by a fee-sponsorship container
PrefixOf(i, inner) ==
    frames[i].nodeNetworkId.s \o (IF inner THEN InnerTxSuffix ELSE <<>>)

\* the signature verifies for the sender over the prefixed payload or over
\* the prefixed hash of the payload
VerifiesUnder(i, signature, inner) ==
    \/ verify(PrefixOf(i, inner) \o frames[i].tx["encodedTx"].rlpEncoded,
              signature, SignerOf(i))
    \/ verify(PrefixOf(i, inner) \o hash(frames[i].tx["encodedTx"].rlpEncoded),
              signature, SignerOf(i))

SignaturesOf(i) == frames[i].tx["signatures"].v

InvalidSignatureFound(i) ==
    \E k \in 1..Len(frames[i].stages[1].v) :
        frames[i].stages[1].v[k].key = "InvalidSignature"

\* C16: for any number of carried signatures, InvalidSignature is found iff
\* none of them verifies for the sender
C16_AnyNumberOfSignatures ==
    \A i \in SignedChecked :
        InvalidSignatureFound(i) <=>
            ~ \E k \in 1..Len(SignaturesOf(i)) :
                VerifiesUnder(i, SignaturesOf(i)[k].d, ThroughPayingFor(i))

\* C17: a signature made under the prefix of the other position (with the
\* inner marker outside a fee-sponsorship container, without it inside one)
\* is reported InvalidSignature; one made under the prefix of its position
\* is not
C17_PrefixOfPosition ==
    \A i \in SignedChecked :
        Len(SignaturesOf(i)) = 1 =>
            /\ VerifiesUnder(i, SignaturesOf(i)[1].d, ThroughPayingFor(i))
                    => ~ InvalidSignatureFound(i)
            /\ VerifiesUnder(i, SignaturesOf(i)[1].d, ~ ThroughPayingFor(i))
                    => InvalidSignatureFound(i)

(***************************************************************************)
(* The recursion (C18).                                                    *)
(***************************************************************************)
\* the tags of the transactions that enclose the transaction of call i,
\* outermost first
EnclosingTags(i) == [j \in 1..(i - 1) |-> JNum(TagOf(j))]

\* C18: every call of the recursion is given the tags of the enclosing
\* transactions, outermost first, as its parent tag chain; a returned call
\* has run each call's stages once and holds the findings of all calls
C18_ParentTagChain ==
    /\ \A i \in FetchedFrames : frames[i].parentTxTypes = EnclosingTags(i)
    /\ vpc = "returned" =>
            \A i \in 1..Len(frames) :
                /\ Len(frames[i].stages) = 8
                /\ \A s \in {1, 3, 4, 5, 6, 7, 8} :
                    \A k \in 1..Len(frames[i].stages[s].v) :
                        \E j \in 1..Len(vRes.findings) :
                            vRes.findings[j] = frames[i].stages[s].v[k]

(***************************************************************************)
(* tx/index.ts: the resolution of the nonce and of the ttl of a            *)
(* transaction against the node, by prepareTxParams (with calculateTtl)    *)
(* and by _buildTx.  Every await of the code is a position of the call.    *)
(***************************************************************************)
\* TX_TTL of tx/builder/schema: the ttl of a transaction that is given none
TX_TTL == 0

\* calculateFee of tx/builder: a fee that is given and is not below the
\* least fee of the transaction is kept
calculateFee(fee) == fee

\* lines 287-323: the key of the sender of a transaction type, for the
\* types of the switch that the model has a schema of
SenderKeyOf ==
    Tag.SpendTx :> "senderId" @@ Tag.NameClaimTx :> "accountId"
        @@ Tag.ContractCreateTx :> "ownerId" @@ Tag.GaMetaTx :> "gaId"
        @@ Tag.ContractCallTx :> "callerId" @@ Tag.PayingForTx :> "payerId"

\* lines 325-329: the condition under which _buildTx asks the node for its
\* protocol; Object.keys of a numeric enum holds the names and the numbers
\* of its members
NeedsProtocolVersion(txType, params) ==
    /\ 2 * Cardinality(DOMAIN ConsensusProtocolVersion) # 2
    /\ \/ /\ txType \in {Tag.ContractCreateTx, Tag.GaAttachTx}
          /\ IsNullish(Get(params, "ctVersion"))
       \/ /\ txType \in {Tag.ContractCallTx, Tag.GaMetaTx}
          /\ IsNullish(Get(params, "abiVersion"))

Resolved(nonce, ttl, fee) ==
    [err |-> "", nonce |-> nonce, ttl |-> ttl, fee |-> fee]

ResolverThrew(e) == [err |-> e, nonce |-> Undef, ttl |-> Undef, fee |-> Undef]

\* the greatest height of the node when a resolving call starts
MaxHeight == 6

\* the nodes: the sender's account exists, with a next nonce by strategy
\* (the strict next value, one past the highest pending), or is missing
ResolverNodes ==
    {[height |-> h, account |-> a, next |-> [continuity |-> 5, max |-> 7], mined |-> 0] :
        h \in 5..MaxHeight, a \in {"exists", "missing"}}

\* the options of a call: the sender, a nonce or none, a ttl or none, a ttl
\* marked absolute or not, a strategy
ResolverArgs ==
    {[senderId |-> sender, nonce |-> nonce, ttl |-> ttl, absoluteTtl |-> absolute,
      strategy |-> strategy, fee |-> JNum(20)] :
        sender \in {ak(1)},
        nonce \in {Undef, JNum(0), JNum(3)},
        ttl \in {Undef, JNum(0), JNum(0 - 3), JNum(4)},
        absolute \in {Undef, JBool(TRUE), JBool(FALSE)},
        strategy \in {"continuity", "max"}}
    \cup {[nonce |-> Undef, ttl |-> JNum(4), absoluteTtl |-> Undef,
           strategy |-> "max", fee |-> JNum(20)]}

ResolverInit ==
    /\ CodecIdle
    /\ ValidatorIdle
    /\ AppIdle
    /\ rpc = "start"
    /\ rFn \in {"prepareTxParams", "_buildTx"}
    /\ rType \in {Tag.SpendTx, Tag.SignedTx}
    /\ rArgs \in ResolverArgs
    /\ rParams = rArgs
    /\ rNode \in ResolverNodes
    /\ rLog = <<>>
    /\ rRes = ResolverThrew("none")
    /\ rFn = "prepareTxParams" => rType = Tag.SpendTx /\ "senderId" \in DOMAIN rArgs

\* a request is sent to the node
Query(name) == rLog' = Append(rLog, [q |-> name, r |-> Undef])

\* the node answers the request that is pending
Replied(r) == rLog' = [rLog EXCEPT ![Len(rLog)].r = r]

NotFound == JErr("account not found")

Throw(e) == rpc' = "threw" /\ rRes' = ResolverThrew(e)

\* lines 218-220 of prepareTxParams and lines 341-346 of _buildTx, up to
\* the await: a nonce that is given is kept, an absent one is asked of the
\* node
ResolveNonce ==
    /\ IF IsNullish(rParams["nonce"])
       THEN rpc' = "awaitNonce" /\ Query("getAccountNextNonce")
       ELSE rpc' = "ttl" /\ UNCHANGED rLog
    /\ UNCHANGED <<rParams, rRes>>

\* prepareTxParams(txType, options) up to its first await
CallPrepareTxParams ==
    /\ rpc = "start"
    /\ rFn = "prepareTxParams"
    /\ ResolveNonce
    /\ UNCHANGED <<rFn, rType, rArgs, rNode>>
    /\ UNCHANGED <<codecVars, valVars, appVars>>

\* _buildTx(txType, options) up to its first await (lines 273-346), for a
\* transaction that wraps no other
Call_buildTx ==
    /\ rpc = "start"
    /\ rFn = "_buildTx"
    /\ rType # Tag.PayingForTx
    /\ ~ NeedsProtocolVersion(rType, rParams)
    /\ IF rType \notin DOMAIN SenderKeyOf
       THEN Throw("ArgumentError") /\ UNCHANGED <<rParams, rLog>>
       ELSE IF IsNullish(Get(rParams, SenderKeyOf[rType]))
       THEN Throw("InvalidTxParamsError") /\ UNCHANGED <<rParams, rLog>>
       ELSE ResolveNonce
    /\ UNCHANGED <<rFn, rType, rArgs, rNode>>
    /\ UNCHANGED <<codecVars, valVars, appVars>>

\* the node answers with the next nonce of the account under the strategy
NonceReply ==
    /\ rpc = "awaitNonce"
    /\ rNode.account = "exists"
    /\ rParams' = [rParams EXCEPT !["nonce"] = JNum(rNode.next[rParams["strategy"]])]
    /\ Replied(JNum(rNode.next[rParams["strategy"]]))
    /\ rpc' = "ttl"
    /\ UNCHANGED <<rFn, rType, rArgs, rNode, rRes>>
    /\ UNCHANGED <<codecVars, valVars, appVars>>

\* the node answers that the account is not found: the nonce is 1
NonceNotFound ==
    /\ rpc = "awaitNonce"
    /\ rNode.account = "missing"
    /\ rParams' = [rParams EXCEPT !["nonce"] = JNum(1)]
    /\ Replied(NotFound)
    /\ rpc' = "ttl"
    /\ UNCHANGED <<rFn, rType, rArgs, rNode, rRes>>
    /\ UNCHANGED <<codecVars, valVars, appVars>>

\* the request fails with another error: prepareTxParams catches every
\* error (line 219), _buildTx throws what is not 'account not found'
\* (lines 342-345)
NonceFail ==
    /\ rpc = "awaitNonce"
    /\ IF rFn = "prepareTxParams"
       THEN /\ rParams' = [rParams EXCEPT !["nonce"] = JNum(1)]
            /\ rpc' = "ttl"
            /\ UNCHANGED rRes
       ELSE Throw("RestError") /\ UNCHANGED rParams
    /\ Replied(JErr("RestError"))
    /\ UNCHANGED <<rFn, rType, rArgs, rNode>>
    /\ UNCHANGED <<codecVars, valVars, appVars>>

\* calculateTtl (lines 152-164) up to its await, called with relative =
\* (absoluteTtl == null) by prepareTxParams (lines 221-225)
calculateTtlStart ==
    LET ttl == IF IsNullish(rParams["ttl"]) THEN JNum(TX_TTL) ELSE rParams["ttl"]
        relative == IsNullish(rParams["absoluteTtl"])
    IN  IF NumOf(ttl) = 0
        THEN /\ rParams' = [rParams EXCEPT !["ttl"] = JNum(0)]
             /\ rpc' = "fee"
             /\ UNCHANGED <<rLog, rRes>>
        ELSE IF NumOf(ttl) < 0
        THEN Throw("ArgumentError") /\ UNCHANGED <<rParams, rLog>>
        ELSE IF relative
        THEN /\ rpc' = "awaitHeight"
             /\ Query("getCurrentKeyBlock")
             /\ UNCHANGED <<rParams, rRes>>
        ELSE /\ rpc' = "fee"
             /\ UNCHANGED <<rParams, rLog, rRes>>

\* lines 348-351 of _buildTx up to the await
buildTxTtlStart ==
    IF /\ rParams["absoluteTtl"] # JBool(TRUE)
       /\ rParams["ttl"] # JNum(0)
       /\ ~ IsNullish(rParams["ttl"])
    THEN /\ rpc' = "awaitHeight"
         /\ Query("getCurrentKeyBlock")
         /\ UNCHANGED <<rParams, rRes>>
    ELSE /\ rpc' = "build"
         /\ UNCHANGED <<rParams, rLog, rRes>>

ResolveTtl ==
    /\ rpc = "ttl"
    /\ IF rFn = "prepareTxParams" THEN calculateTtlStart ELSE buildTxTtlStart
    /\ UNCHANGED <<rFn, rType, rArgs, rNode>>
    /\ UNCHANGED <<codecVars, valVars, appVars>>

\* the node answers with its current key block: the height is added to the
\* ttl (lines 159-160; lines 349-350, which also mark the ttl absolute)
HeightReply ==
    /\ rpc = "awaitHeight"
    /\ rParams' =
         IF rFn = "prepareTxParams"
         THEN [rParams EXCEPT !["ttl"] = JNum(rNode.height + NumOf(@))]
         ELSE [rParams EXCEPT !["ttl"] = JNum(NumOf(@) + rNode.height),
                              !["absoluteTtl"] = JBool(TRUE)]
    /\ Replied(JNum(rNode.height))
    /\ rpc' = IF rFn = "prepareTxParams" THEN "fee" ELSE "build"
    /\ UNCHANGED <<rFn, rType, rArgs, rNode, rRes>>
    /\ UNCHANGED <<codecVars, valVars, appVars>>

\* the request of the current key block fails
HeightFail ==
    /\ rpc = "awaitHeight"
    /\ Throw("RestError")
    /\ Replied(JErr("RestError"))
    /\ UNCHANGED <<rFn, rType, rArgs, rParams, rNode>>
    /\ UNCHANGED <<codecVars, valVars, appVars>>

\* lines 226-231 of prepareTxParams: the fee, and the return
ReturnPrepareTxParams ==
    /\ rpc = "fee"
    /\ rpc' = "returned"
    /\ rRes' = Resolved(rParams["nonce"], rParams["ttl"], calculateFee(Get(rParams, "fee")))
    /\ UNCHANGED <<rFn, rType, rArgs, rParams, rNode, rLog>>
    /\ UNCHANGED <<codecVars, valVars, appVars>>

\* line 353 of _buildTx, syncBuildTx({ ...params, tag: txType }): buildTx
\* is called with the resolved parameters and without a type
Return_buildTx ==
    /\ rpc = "build"
    /\ \E built \in {buildTx(Put(rParams, "tag", JNum(rType)), NaN, {}, "tx", <<>>)} :
          IF built.err # ""
          THEN Throw(built.err)
          ELSE /\ rpc' = "returned"
               /\ rRes' = Resolved(rParams["nonce"], rParams["ttl"], Get(rParams, "fee"))
    /\ UNCHANGED <<rFn, rType, rArgs, rParams, rNode, rLog>>
    /\ UNCHANGED <<codecVars, valVars, appVars>>

\* a key block is mined while the call is in progress
ResolverMine ==
    /\ rpc \notin {"idle", "returned", "threw"}
    /\ rNode.mined < MaxBlocks
    /\ rNode' = [rNode EXCEPT !.height = @ + 1, !.mined = @ + 1]
    /\ UNCHANGED <<rpc, rFn, rType, rArgs, rParams, rLog, rRes>>
    /\ UNCHANGED <<codecVars, valVars, appVars>>

ResolverNext ==
    \/ CallPrepareTxParams
    \/ Call_buildTx
    \/ NonceReply
    \/ NonceNotFound
    \/ NonceFail
    \/ ResolveTtl
    \/ HeightReply
    \/ HeightFail
    \/ ReturnPrepareTxParams
    \/ Return_buildTx
    \/ ResolverMine

SpecResolver == ResolverInit /\ [][ResolverNext]_vars

(***************************************************************************)
(* The resolution of the nonce (C19) and of the ttl (C20).                 *)
(***************************************************************************)
\* the answers the node gave to the requests of a kind
AnswersTo(name) ==
    {rLog[i].r : i \in {j \in 1..Len(rLog) : rLog[j].q = name}} \ {Undef}

Asked(name) == \E i \in 1..Len(rLog) : rLog[i].q = name

\* the call is past the resolution of its nonce
PastNonce == rpc \in {"ttl", "awaitHeight", "fee", "build", "returned"}

\* the call is past the resolution of its ttl
PastTtl == rpc \in {"fee", "build", "returned"}

\* C19: a nonce that is given is kept and the node is not asked; an absent
\* nonce is the next nonce the node answers, 1 when the node answers that
\* the account is not found; on any other error the call fails, the nonce
\* is not resolved
C19_NonceResolution ==
    /\ ~ IsNullish(rArgs["nonce"]) =>
          /\ ~ Asked("getAccountNextNonce")
          /\ rParams["nonce"] = rArgs["nonce"]
    /\ \A r \in AnswersTo("getAccountNextNonce") :
          /\ r.k = "num" => rParams["nonce"] = r
          /\ r = NotFound => rParams["nonce"] = JNum(1)
          /\ r = JErr("RestError") =>
                /\ ~ PastNonce
                /\ rRes.err = "RestError"
                /\ IsNullish(rParams["nonce"])

\* C20: a ttl of 0 stays 0 and the height is not asked for; a negative ttl
\* is refused with ArgumentError; a ttl that is not marked absolute has the
\* height added once; a ttl marked absolute is kept and the height is not
\* asked for
C20_TtlResolution ==
    ~ IsNullish(rArgs["ttl"]) =>
        LET ttl == NumOf(rArgs["ttl"])
            heights == AnswersTo("getCurrentKeyBlock") \ {JErr("RestError")}
        IN  /\ Len(SelectSeq(rLog, LAMBDA e : e.q = "getCurrentKeyBlock")) <= 1
            /\ ttl = 0 => /\ ~ Asked("getCurrentKeyBlock")
                          /\ PastTtl => rParams["ttl"] = JNum(0)
            /\ ttl < 0 => /\ ~ Asked("getCurrentKeyBlock")
                          /\ ~ PastTtl
                          /\ rpc = "ttl" \/ rRes.err \in {"none", "ArgumentError", "RestError"}
            /\ (ttl > 0 /\ IsNullish(rArgs["absoluteTtl"]) /\ PastTtl) =>
                    \E h \in heights : rParams["ttl"] = JNum(ttl + NumOf(h))
            /\ (ttl > 0 /\ rArgs["absoluteTtl"] = JBool(TRUE)) =>
                    /\ ~ Asked("getCurrentKeyBlock")
                    /\ rParams["ttl"] = rArgs["ttl"]

(***************************************************************************)
(* aens.ts: a Name object, its preclaim and claim.  buildTxAsync and       *)
(* sendTransaction are awaited; each may resolve or reject.                *)
(***************************************************************************)
\* the greatest number of calls made on a Name object in a run
MaxNameCalls == 3

\* genSalt: a random number, another one at every call
genSalt(calls) == JNum(Len(calls) + 1)

NameCall(fn, salt, pc, err) == [fn |-> fn, salt |-> salt, pc |-> pc, err |-> err]

NameEvent(ev, call, salt) == [ev |-> ev, call |-> call, salt |-> salt]

NameInit ==
    /\ CodecIdle
    /\ ValidatorIdle
    /\ ResolverIdle
    /\ OracleIdle
    /\ ContractIdle
    /\ SdkIdle
    /\ nSalt = Undef
    /\ nCalls = <<>>
    /\ nLog = <<>>

\* a claim that is never refused
claimNeverRefused(salt) == FALSE

\* line 227: claim throws unless a salt is set
claimRefused(salt) == IsNullish(salt)

\* lines 253-254 of preclaim up to its first await: a new salt is drawn
\* and the preclaim transaction of its commitment is being built
CallPreclaim ==
    /\ Len(nCalls) < MaxNameCalls
    /\ nCalls' = Append(nCalls, NameCall("preclaim", genSalt(nCalls), "building", ""))
    /\ nLog' = Append(nLog, NameEvent("call", Len(nCalls) + 1, genSalt(nCalls)))
    /\ UNCHANGED nSalt
    /\ UNCHANGED <<libVars, pollVars, handlerVars, ctrVars, sdkVars>>

\* lines 226-235 of claim up to its first await: LogicError without a
\* salt, else the claim transaction of the salt is being built
CallClaim ==
    /\ Len(nCalls) < MaxNameCalls
    /\ nCalls' = Append(nCalls,
            IF claimRefused(nSalt) THEN NameCall("claim", nSalt, "threw", "LogicError")
            ELSE NameCall("claim", nSalt, "building", ""))
    /\ nLog' = Append(nLog, NameEvent("call", Len(nCalls) + 1, nSalt))
    /\ UNCHANGED nSalt
    /\ UNCHANGED <<libVars, pollVars, handlerVars, ctrVars, sdkVars>>

\* buildTxAsync resolves: the transaction is given to sendTransaction
\* (lines 236 and 261)
NameBuilt(i) ==
    /\ nCalls[i].pc = "building"
    /\ nCalls' = [nCalls EXCEPT ![i].pc = "sending"]
    /\ nLog' = Append(nLog, NameEvent("send", i, nCalls[i].salt))
    /\ UNCHANGED nSalt
    /\ UNCHANGED <<libVars, pollVars, handlerVars, ctrVars, sdkVars>>

\* buildTxAsync or sendTransaction rejects: the call throws
NameRejected(i) ==
    /\ nCalls[i].pc \in {"building", "sending"}
    /\ nCalls' = [nCalls EXCEPT ![i].pc = "threw", ![i].err = "RestError"]
    /\ nLog' = Append(nLog, NameEvent("failed", i, nCalls[i].salt))
    /\ UNCHANGED nSalt
    /\ UNCHANGED <<libVars, pollVars, handlerVars, ctrVars, sdkVars>>

\* the salt of the object after the sendTransaction of a call resolved
\* (line 262: preclaim stores its salt)
saltAfterSent(call, salt) == IF call.fn = "preclaim" THEN call.salt ELSE salt

\* sendTransaction resolves: the call returns its result
NameSent(i) ==
    /\ nCalls[i].pc = "sending"
    /\ nCalls' = [nCalls EXCEPT ![i].pc = "returned"]
    /\ nSalt' = saltAfterSent(nCalls[i], nSalt)
    /\ nLog' = Append(nLog, NameEvent("done", i, nCalls[i].salt))
    /\ UNCHANGED <<libVars, pollVars, handlerVars, ctrVars, sdkVars>>

NameNext ==
    \/ CallPreclaim
    \/ CallClaim
    \/ \E i \in 1..Len(nCalls) : NameBuilt(i) \/ NameRejected(i) \/ NameSent(i)

SpecName == NameInit /\ [][NameNext]_vars

(***************************************************************************)
(* claim after preclaim (C21).                                             *)
(***************************************************************************)
\* the events of the preclaim calls that completed before event k
PreclaimsDoneBefore(k) ==
    {j \in 1..(k - 1) : nLog[j].ev = "done" /\ nCalls[nLog[j].call].fn = "preclaim"}

\* the event at which call i was made
CallEventOf(i) == CHOOSE k \in 1..Len(nLog) : nLog[k].ev = "call" /\ nLog[k].call = i

\* what the log holds of call i after it was made
EventsOf(i) == {k \in 1..Len(nLog) : nLog[k].call = i /\ nLog[k].ev # "call"}

ClaimCalls == {i \in 1..Len(nCalls) : nCalls[i].fn = "claim"}

\* C21: a claim called before any preclaim of the object completed throws
\* LogicError and builds and sends nothing; a claim called later sends only
\* a claim transaction whose salt is the salt of the preclaim that completed
\* last before the claim was called
C21_ClaimAfterPreclaim ==
    \A i \in ClaimCalls :
        LET done == PreclaimsDoneBefore(CallEventOf(i))
        IN  IF done = {}
            THEN /\ nCalls[i].pc = "threw"
                 /\ nCalls[i].err = "LogicError"
                 /\ EventsOf(i) = {}
            ELSE LET last == CHOOSE j \in done : \A k \in done : k <= j
                 IN  \A k \in EventsOf(i) :
                        nLog[k].ev = "send" => nLog[k].salt = nLog[last].salt

\* a claim was refused, a preclaim completed, and a claim called after it
\* returned
C21_Witness ==
    \E i, j \in ClaimCalls :
        /\ nCalls[i].err = "LogicError"
        /\ nCalls[j].pc = "returned"
        /\ ~ IsNullish(nCalls[j].salt)

(***************************************************************************)
(* oracle/Oracle.ts: pollQueries.  A session is one pollQueries call: its  *)
(* loop, its knownQueryIds, its stopped flag, and what its onQuery         *)
(* callback was invoked with.                                              *)
(***************************************************************************)
\* the greatest number of queries posted to the oracle in a run
MaxQueries == 2

\* the greatest number of pollQueries calls in a run
MaxSessions == 1

QueryIds == 1..MaxQueries

\* lines 98-120 of pollQueries: the loop starts at once, its first request
\* is in flight when the call returns.  invoked counts the onQuery calls by
\* query id and returned the answers of the node that held the id (both up
\* to 2); late holds the ids onQuery was invoked with after the stop, threw
\* those whose callback threw; failed tells that a request failed
NewSession(kind) ==
    [kind |-> kind, pc |-> "awaitNode", stopped |-> FALSE, known |-> {},
     invoked |-> [id \in QueryIds |-> 0], returned |-> [id \in QueryIds |-> 0],
     late |-> {}, threw |-> {}, failed |-> FALSE]

UpTo2(n) == IF n >= 2 THEN 2 ELSE n

\* line 104: the queries of an answer that are not known, in their order
NewQueries(answer, known) ==
    SelectSeq([i \in QueryIds |-> i], LAMBDA id : id \in answer /\ id \notin known)

\* a knownQueryIds that misses the last query given to the callback
knownAfterReturn(known, new, n) == known \cup {new[i] : i \in 1..(n - 1)}

\* lines 105-108: knownQueryIds after the callback was invoked for the
\* first n of the new queries (the id is added before the callback is
\* invoked)
knownAfter(known, new, n) == known \cup {new[i] : i \in 1..n}

\* lines 102-108: an answer of the node is delivered.  The callback of
\* the n-th new query throws (threw), or none does and n is their number;
\* the callback of the stopAt-th stops the polling (0: none does)
Delivered(s, answer, n, threw, stopAt) ==
    LET new == NewQueries(answer, s.known)
        seen == {new[i] : i \in 1..n}
        after == IF s.stopped THEN seen
                 ELSE IF stopAt = 0 THEN {}
                 ELSE {new[i] : i \in (stopAt + 1)..n}
    IN  [s EXCEPT !.pc = "pause",
                  !.known = knownAfter(s.known, new, n),
                  !.invoked = [id \in QueryIds |->
                                  IF id \in seen THEN UpTo2(@[id] + 1) ELSE @[id]],
                  !.returned = [id \in QueryIds |->
                                  IF id \in answer THEN UpTo2(@[id] + 1) ELSE @[id]],
                  !.late = @ \cup after,
                  !.threw = IF threw THEN @ \cup {new[n]} ELSE @,
                  !.stopped = @ \/ stopAt > 0]

PollInit ==
    /\ CodecIdle
    /\ ValidatorIdle
    /\ ResolverIdle
    /\ NameIdle
    /\ ContractIdle
    /\ SdkIdle
    /\ oQueries = {}
    /\ oSessions = <<>>
    /\ oPromise = Undef
    /\ oTasks = <<>>
    /\ oStops = {}

\* oracle.pollQueries(onQuery)
PollQueries ==
    /\ Len(oSessions) < MaxSessions
    /\ oSessions' = Append(oSessions, NewSession("poll"))
    /\ UNCHANGED oQueries
    /\ UNCHANGED <<libVars, nameVars, handlerVars, ctrVars, sdkVars>>

\* a client posts a query to the oracle
QueryPosted ==
    /\ \E id \in QueryIds \ oQueries :
          /\ \A j \in QueryIds : j < id => j \in oQueries
          /\ oQueries' = oQueries \cup {id}
    /\ UNCHANGED oSessions
    /\ UNCHANGED <<libVars, nameVars, handlerVars, ctrVars, sdkVars>>

\* getOracleQueriesByPubkey resolves (line 102) and the new queries are
\* given to onQuery, which may throw and may call the stop function
QueriesReply(i) ==
    /\ oSessions[i].pc = "awaitNode"
    /\ oSessions[i].kind = "poll"
    /\ \E n \in 0..Len(NewQueries(oQueries, oSessions[i].known)),
          threw \in BOOLEAN, stopAt \in 0..MaxQueries :
          /\ threw => n >= 1
          /\ n < Len(NewQueries(oQueries, oSessions[i].known)) => threw
          /\ stopAt <= n
          /\ stopAt > 0 => ~ oSessions[i].stopped
          /\ oSessions' = [oSessions EXCEPT
                              ![i] = Delivered(@, oQueries, n, threw, stopAt)]
    /\ UNCHANGED oQueries
    /\ UNCHANGED <<libVars, nameVars, handlerVars, ctrVars, sdkVars>>

\* getOracleQueriesByPubkey rejects: the error is logged (line 117)
QueriesFail(i) ==
    /\ oSessions[i].pc = "awaitNode"
    /\ oSessions' = [oSessions EXCEPT ![i].pc = "pause",
                                       ![i].failed = (oSessions[i].kind = "poll")]
    /\ UNCHANGED oQueries
    /\ UNCHANGED <<libVars, nameVars, handlerVars, ctrVars, sdkVars>>

\* lines 118 and 115: the pause is over; the loop ends if it was
\* stopped, else the next request is sent
PauseOver(i) ==
    /\ oSessions[i].pc = "pause"
    /\ oSessions' = [oSessions EXCEPT
                        ![i].pc = IF oSessions[i].stopped THEN "ended" ELSE "awaitNode"]
    /\ UNCHANGED oQueries
    /\ UNCHANGED <<libVars, nameVars, handlerVars, ctrVars, sdkVars>>

\* line 121: the stop function of pollQueries is called
StopPolling(i) ==
    /\ oSessions[i].kind = "poll"
    /\ ~ oSessions[i].stopped
    /\ oSessions' = [oSessions EXCEPT ![i].stopped = TRUE]
    /\ UNCHANGED oQueries
    /\ UNCHANGED <<libVars, nameVars, handlerVars, ctrVars, sdkVars>>

PollNext ==
    \/ PollQueries
    \/ QueryPosted
    \/ \E i \in 1..Len(oSessions) :
          QueriesReply(i) \/ QueriesFail(i) \/ PauseOver(i) \/ StopPolling(i)

SpecPoll == PollInit /\ [][PollNext]_vars

(***************************************************************************)
(* oracle/Oracle.ts: handleQueries.  A promise is the set of the handler   *)
(* calls it waits for; the queue of a handler is the order in which its    *)
(* calls got their response.                                               *)
(***************************************************************************)
\* the greatest number of handleQueries calls that start a handler in a run
MaxHandlers == 2

\* the greatest number of calls of stop functions in a run
MaxStops == 2

\* the greatest number of queries given to handlers in a run
MaxTasks == 2

PromiseOf(tasks) == [k |-> "promise", tasks |-> tasks]

Settled2(task) == task.pc \in {"done", "failed"}

\* the handler calls a promise still waits for
Unsettled(promise, tasks) ==
    IF IsNullish(promise) THEN {} ELSE {t \in promise.tasks : ~ Settled2(tasks[t])}

\* lines 169-170: handler(query) up to its await of getResponse; turn is
\* the place of the call in the queue of its handler, 0 before it has one
NewTask(session, id) == [session |-> session, id |-> id, pc |-> "getResponse", turn |-> 0]

\* a respondToQuery that does not wait for its turn
mayRespondAtOnce(tasks, t) == tasks[t].pc = "queued"

\* lines 171-173: respondToQuery of a call is called when the respondToQuery
\* calls queued before it by the same handler have settled
mayRespond(tasks, t) ==
    /\ tasks[t].pc = "queued"
    /\ \A u \in 1..Len(tasks) :
          (tasks[u].session = tasks[t].session /\ 0 < tasks[u].turn
              /\ tasks[u].turn < tasks[t].turn) => Settled2(tasks[u])

\* line 163: handleQueries throws while #handleQueriesPromise is set
handlerRefused(promise) == ~ IsNullish(promise)

\* lines 159-188: handleQueries(getResponse): LogicError, or a handler
\* whose polling loop is started
HandleQueries ==
    /\ Len(oSessions) < MaxHandlers
    /\ IF handlerRefused(oPromise)
       THEN UNCHANGED <<oSessions, oPromise>>
       ELSE /\ oSessions' = Append(oSessions, NewSession("handle"))
            /\ oPromise' = PromiseOf({})
    /\ UNCHANGED <<oQueries, oTasks, oStops>>
    /\ UNCHANGED <<libVars, nameVars, ctrVars, sdkVars>>

\* lines 179-185, for the new queries of an answer in their order: handler
\* is called, and its promise is chained to #handleQueriesPromise unless
\* that is unset
HandlerReply(i) ==
    /\ oSessions[i].pc = "awaitNode"
    /\ oSessions[i].kind = "handle"
    /\ \E new \in {NewQueries(oQueries, oSessions[i].known)} :
          /\ Len(oTasks) + Len(new) <= MaxTasks
          /\ oSessions' = [oSessions EXCEPT
                ![i].pc = "pause",
                ![i].known = knownAfter(@, new, Len(new))]
          /\ oTasks' = oTasks \o [j \in 1..Len(new) |-> NewTask(i, new[j])]
          /\ oPromise' = IF IsNullish(oPromise) THEN oPromise
                         ELSE PromiseOf(Unsettled(oPromise, oTasks)
                                \cup ((Len(oTasks) + 1)..(Len(oTasks) + Len(new))))
    /\ UNCHANGED <<oQueries, oStops>>
    /\ UNCHANGED <<libVars, nameVars, ctrVars, sdkVars>>

\* line 170: getResponse settles; with a response the call takes its place
\* in the queue of its handler (lines 171-173), without one it rejects
GotResponse(t) ==
    /\ oTasks[t].pc = "getResponse"
    /\ \E ok \in BOOLEAN :
          oTasks' = [oTasks EXCEPT
              ![t].pc = IF ok THEN "queued" ELSE "failed",
              ![t].turn = IF ok
                          THEN 1 + Cardinality({u \in 1..Len(oTasks) :
                                    oTasks[u].session = oTasks[t].session
                                        /\ oTasks[u].turn > 0})
                          ELSE 0]
    /\ UNCHANGED <<pollVars, oPromise, oStops>>
    /\ UNCHANGED <<libVars, nameVars, ctrVars, sdkVars>>

\* line 172: respondToQuery is called
RespondStart(t) ==
    /\ mayRespond(oTasks, t)
    /\ oTasks' = [oTasks EXCEPT ![t].pc = "responding"]
    /\ UNCHANGED <<pollVars, oPromise, oStops>>
    /\ UNCHANGED <<libVars, nameVars, ctrVars, sdkVars>>

\* lines 133-147: respondToQuery resolves or rejects
Responded(t) ==
    /\ oTasks[t].pc = "responding"
    /\ \E ok \in BOOLEAN :
          oTasks' = [oTasks EXCEPT ![t].pc = IF ok THEN "done" ELSE "failed"]
    /\ UNCHANGED <<pollVars, oPromise, oStops>>
    /\ UNCHANGED <<libVars, nameVars, ctrVars, sdkVars>>

\* lines 189-191: the stop function of a handler is called: the polling is
\* stopped and #handleQueriesPromise, as it is now, is awaited
StopHandler(i) ==
    /\ oSessions[i].kind = "handle"
    /\ Cardinality(oStops) < MaxStops
    /\ oSessions' = [oSessions EXCEPT ![i].stopped = TRUE]
    /\ oStops' = oStops \cup
            {[session |-> i, pc |-> "awaiting",
              awaits |-> Unsettled(oPromise, oTasks)]}
    /\ UNCHANGED <<oQueries, oPromise, oTasks>>
    /\ UNCHANGED <<libVars, nameVars, ctrVars, sdkVars>>

\* lines 191-192: the awaited promise has settled: #handleQueriesPromise
\* is unset and the promise of the stop function resolves
StopResolved(k) ==
    /\ k.pc = "awaiting"
    /\ \A t \in k.awaits : Settled2(oTasks[t])
    /\ oStops' = (oStops \ {k}) \cup {[session |-> k.session, pc |-> "resolved", awaits |-> {}]}
    /\ oPromise' = Undef
    /\ UNCHANGED <<pollVars, oTasks>>
    /\ UNCHANGED <<libVars, nameVars, ctrVars, sdkVars>>

HandlerNext ==
    \/ HandleQueries
    \/ QueryPosted
    \/ \E i \in 1..Len(oSessions) :
          HandlerReply(i) \/ QueriesFail(i) \/ PauseOver(i) \/ StopHandler(i)
    \/ \E t \in 1..Len(oTasks) : GotResponse(t) \/ RespondStart(t) \/ Responded(t)
    \/ \E k \in oStops : StopResolved(k)

SpecHandler == PollInit /\ [][HandlerNext]_vars

\* an Oracle object on which handleQueries was called once
QueueInit ==
    /\ CodecIdle
    /\ ValidatorIdle
    /\ ResolverIdle
    /\ NameIdle
    /\ ContractIdle
    /\ SdkIdle
    /\ oQueries = {}
    /\ oSessions = <<NewSession("handle")>>
    /\ oPromise = PromiseOf({})
    /\ oTasks = <<>>
    /\ oStops = {}

\* the steps of one handler: the handler is stopped, by one call of its
\* stop function or by several, and no other handler is started
QueueNext ==
    \/ QueryPosted
    \/ \E i \in 1..Len(oSessions) :
          HandlerReply(i) \/ QueriesFail(i) \/ PauseOver(i) \/ StopHandler(i)
    \/ \E t \in 1..Len(oTasks) : GotResponse(t) \/ RespondStart(t) \/ Responded(t)
    \/ \E k \in oStops : StopResolved(k)

SpecQueue == QueueInit /\ [][QueueNext]_vars

(***************************************************************************)
(* The callback of pollQueries (C22, C27).                                 *)
(***************************************************************************)
\* C22: in a pollQueries session onQuery is invoked at most once with a
\* query id
C22_OncePerQuery ==
    \A i \in 1..Len(oSessions) : \A id \in QueryIds : oSessions[i].invoked[id] <= 1

\* a query whose callback threw was returned again, after a failed request,
\* and onQuery was invoked once with it
C22_Witness ==
    \E i \in 1..Len(oSessions) : \E id \in oSessions[i].threw :
        /\ oSessions[i].returned[id] = 2
        /\ oSessions[i].failed
        /\ oSessions[i].invoked[id] = 1

\* C27: onQuery is not invoked after the stop function was called
C27_NoCallbackAfterStop ==
    \A i \in 1..Len(oSessions) : oSessions[i].late = {}

(***************************************************************************)
(* The query handlers (C23, C26, C28).                                     *)
(***************************************************************************)
\* the handlers whose stop function has not been called
ActiveHandlers ==
    {i \in 1..Len(oSessions) : oSessions[i].kind = "handle" /\ ~ oSessions[i].stopped}

\* C23: at most one handler that has not been stopped, and while there is
\* one a handleQueries call is refused
C23_OneActiveHandler ==
    /\ Cardinality(ActiveHandlers) <= 1
    /\ ActiveHandlers # {} => handlerRefused(oPromise)

TasksOf(i) == {t \in 1..Len(oTasks) : oTasks[t].session = i}

\* C26: at most one respondToQuery call of a handler is in flight, and a
\* call is made only when the calls queued before it have settled,
\* resolved or rejected
C26_ResponsesSerialized ==
    \A i \in 1..Len(oSessions) :
        /\ Cardinality({t \in TasksOf(i) : oTasks[t].pc = "responding"}) <= 1
        /\ \A t, u \in TasksOf(i) :
              (0 < oTasks[u].turn /\ oTasks[u].turn < oTasks[t].turn
                  /\ oTasks[t].pc \in {"responding", "done"}) => Settled2(oTasks[u])

\* two queries of one answer got their responses, the respondToQuery of the
\* one queued first rejected and the one queued after it was sent
C26_Witness ==
    \E t, u \in 1..Len(oTasks) :
        /\ oTasks[t].session = oTasks[u].session
        /\ oTasks[u].turn = 1
        /\ oTasks[u].pc = "failed"
        /\ oTasks[t].turn = 2
        /\ oTasks[t].pc = "done"

\* C28: once the promise of a stop function has resolved, no respondToQuery
\* call of its handler is in flight
C28_QuietAfterStop ==
    \A k \in oStops :
        k.pc = "resolved" =>
            \A t \in TasksOf(k.session) : oTasks[t].pc # "responding"

(***************************************************************************)
(* utils/bignumber.ts: Contract.$deploy, for a contract with bytecode and  *)
(* an account, called without callStatic.                                  *)
(***************************************************************************)
\* the greatest number of $deploy calls in a run
MaxDeploys == 3

DeployCall(pc, err) == [pc |-> pc, err |-> err]

\* line 267: the contract id of the create transaction of a call
buildContractIdByContractTx(call) == ct(call + 1)

\* line 254: $deploy throws when an address is set
deployRefused(address) == ~ IsNullish(address)

ContractInit ==
    /\ CodecIdle
    /\ ValidatorIdle
    /\ ResolverIdle
    /\ NameIdle
    /\ OracleIdle
    /\ SdkIdle
    /\ cInit \in {Undef, ct(1)}
    /\ cAddress = cInit
    /\ cCalls = <<>>

\* lines 251-258 of $deploy up to its first await: DuplicateContractError,
\* or the create transaction is being built
CallDeploy ==
    /\ Len(cCalls) < MaxDeploys
    /\ cCalls' = Append(cCalls,
            IF deployRefused(cAddress) THEN DeployCall("threw", "DuplicateContractError")
            ELSE DeployCall("building", ""))
    /\ UNCHANGED <<cInit, cAddress>>
    /\ UNCHANGED <<libVars, nameVars, pollVars, handlerVars, sdkVars>>

\* lines 259-268: buildTxAsync (or the gas estimation) rejects, or it
\* resolves: the address is set and the transaction is sent
DeployBuilt(i) ==
    /\ cCalls[i].pc = "building"
    /\ \E ok \in BOOLEAN :
          IF ok
          THEN /\ cAddress' = buildContractIdByContractTx(i)
               /\ cCalls' = [cCalls EXCEPT ![i].pc = "sending"]
          ELSE /\ cCalls' = [cCalls EXCEPT ![i] = DeployCall("threw", "BuildError")]
               /\ UNCHANGED cAddress
    /\ UNCHANGED cInit
    /\ UNCHANGED <<libVars, nameVars, pollVars, handlerVars, sdkVars>>

\* lines 268-277 and 201-221: #sendAndProcess rejects, or it resolves and
\* $deploy returns
DeploySent(i) ==
    /\ cCalls[i].pc = "sending"
    /\ \E ok \in BOOLEAN :
          cCalls' = [cCalls EXCEPT
              ![i] = IF ok THEN DeployCall("returned", "") ELSE DeployCall("threw", "SendError")]
    /\ UNCHANGED <<cInit, cAddress>>
    /\ UNCHANGED <<libVars, nameVars, pollVars, handlerVars, sdkVars>>

ContractNext ==
    \/ CallDeploy
    \/ \E i \in 1..Len(cCalls) : DeployBuilt(i) \/ DeploySent(i)

SpecContract == ContractInit /\ [][ContractNext]_vars

\* C29: while no address was supplied and every $deploy call so far has
\* failed, the address is unset; and DuplicateContractError is thrown only
\* when an address was supplied or an earlier $deploy call was made whose
\* transaction was sent without an error
C29_FailedDeployLeavesUnset ==
    /\ (IsNullish(cInit) /\ \A i \in 1..Len(cCalls) : cCalls[i].pc = "threw")
            => IsNullish(cAddress)
    /\ \A i \in 1..Len(cCalls) :
          cCalls[i].err = "DuplicateContractError"
              => \/ ~ IsNullish(cInit)
                 \/ \E j \in 1..(i - 1) : cCalls[j].pc \in {"sending", "returned"}

(***************************************************************************)
(* AeSdkBase.ts: the node pool and signTransaction.                        *)
(***************************************************************************)
\* the greatest number of signTransaction calls in a run
MaxSignCalls == 2

NodeNames == {"n1", "n2"}

JNull == [k |-> "null"]

\* the network id of the nodes
NodeNetworkId == JStr("ae_node")

\* the network id a caller may give in the options of signTransaction
NetworkIdOptions == {Undef, JStr("ae_opt")}

SignCall(selected, opt, pc, err, networkId, asked) ==
    [selected |-> selected, opt |-> opt, pc |-> pc, err |-> err,
     networkId |-> networkId, asked |-> asked]

SdkInit ==
    /\ CodecIdle
    /\ ValidatorIdle
    /\ ResolverIdle
    /\ NameIdle
    /\ OracleIdle
    /\ ContractIdle
    /\ sPool = {}
    /\ sSelected = Undef
    /\ sCalls = <<>>

\* lines 125-132: addNode(name, node, select) with a name not in the pool
AddNode(name, select) ==
    /\ name \notin sPool
    /\ sPool' = sPool \cup {name}
    /\ sSelected' = IF select \/ IsNullish(sSelected) THEN JStr(name) ELSE sSelected
    /\ UNCHANGED sCalls
    /\ UNCHANGED <<libVars, nameVars, pollVars, handlerVars, ctrVars>>

\* lines 140-143: selectNode(name) with a name in the pool
SelectNode(name) ==
    /\ name \in sPool
    /\ sSelected' = JStr(name)
    /\ UNCHANGED <<sPool, sCalls>>
    /\ UNCHANGED <<libVars, nameVars, pollVars, handlerVars, ctrVars>>

\* lines 150-152
isNodeConnected(selected) == ~ IsNullish(selected)

\* line 209: this.selectedNodeName !== null
asksNetworkId(selected) == selected # JNull

\* line 210: { networkId, ...options }
NetworkIdPassed(networkId, opt) == IF IsNullish(opt) THEN networkId ELSE opt

\* lines 205-210 of signTransaction up to its await: the api getter (lines
\* 109-112, 154-158) throws NodeNotFoundError or the network id of the
\* selected node is asked for; without the question the account signs
SignTransaction ==
    /\ Len(sCalls) < MaxSignCalls
    /\ \E opt \in NetworkIdOptions :
          sCalls' = Append(sCalls,
              IF asksNetworkId(sSelected)
              THEN IF isNodeConnected(sSelected)
                   THEN SignCall(sSelected, opt, "awaitNetworkId", "", Undef, TRUE)
                   ELSE SignCall(sSelected, opt, "threw", "NodeNotFoundError", Undef, FALSE)
              ELSE SignCall(sSelected, opt, "signed", "", NetworkIdPassed(Undef, opt), FALSE))
    /\ UNCHANGED <<sPool, sSelected>>
    /\ UNCHANGED <<libVars, nameVars, pollVars, handlerVars, ctrVars>>

\* lines 209-210: getNetworkId rejects, or it resolves and the account signs
NetworkIdReply(i) ==
    /\ sCalls[i].pc = "awaitNetworkId"
    /\ \E ok \in BOOLEAN :
          sCalls' = [sCalls EXCEPT
              ![i].pc = IF ok THEN "signed" ELSE "threw",
              ![i].err = IF ok THEN "" ELSE "NodeError",
              ![i].networkId = IF ok THEN NetworkIdPassed(NodeNetworkId, sCalls[i].opt)
                               ELSE Undef]
    /\ UNCHANGED <<sPool, sSelected>>
    /\ UNCHANGED <<libVars, nameVars, pollVars, handlerVars, ctrVars>>

SdkNext ==
    \/ \E name \in NodeNames, select \in BOOLEAN : AddNode(name, select)
    \/ \E name \in NodeNames : SelectNode(name)
    \/ SignTransaction
    \/ \E i \in 1..Len(sCalls) : NetworkIdReply(i)

SpecSdk == SdkInit /\ [][SdkNext]_vars

\* C30: a signTransaction call made while no node is selected asks no node
\* and lets the account sign with the network id of the call options, or
\* with none; and a node is asked only by a call made while one is selected
C30_SignsWithoutNode ==
    \A i \in 1..Len(sCalls) :
        /\ IsNullish(sCalls[i].selected) =>
              /\ sCalls[i].pc = "signed"
              /\ sCalls[i].networkId = sCalls[i].opt
        /\ sCalls[i].asked => ~ IsNullish(sCalls[i].selected)

(***************************************************************************)
(* The fees of a nesting chain (C24).                                      *)
(***************************************************************************)
RECURSIVE FeesBeneath(_)
\* the fees of the transactions nested in a transaction, at every depth
FeesBeneath(tx) ==
    IF IsNullish(NestedOf(tx)) THEN 0
    ELSE OrZero(Get(NestedOf(tx).tx, "fee")) + FeesBeneath(NestedOf(tx).tx)

\* the cost of the transaction of call i when every fee of the chain is
\* charged once, to the payer of the fee-sponsorship container
ChargedCost(i) ==
    OrZero(Get(frames[i].tx, "nameFee")) + OrZero(Get(frames[i].tx, "amount"))
        + (IF ThroughPayingFor(i) THEN 0 ELSE OrZero(Get(frames[i].tx, "fee")))
        + (IF TagOf(i) = Tag.PayingForTx THEN FeesBeneath(frames[i].tx) ELSE 0)

\* C24: in the balance checks of one verification the fee of every
\* transaction beneath a fee-sponsorship container is charged to the payer
\* of the container and to no other account, and every other fee to the
\* sender of its transaction: InsufficientBalance is found iff the cost
\* charged this way exceeds the balance
C24_EachFeeChargedOnce ==
    \A i \in BalanceChecked :
        frames[i].stages[4].v # <<>> <=> ChargedCost(i) > frames[i].account.balance

(***************************************************************************)
(* The caller's object (C25).                                              *)
(***************************************************************************)
\* C25: after a buildTx call, returned or thrown, the object the caller
\* gave has the keys and the values it had before the call
C25_ArgumentsUntouched ==
    bpc \in {"built", "rebuilt"} => bObj = bParams0

====
